---- MODULE Spec2Model ----
(***************************************************************************)
(* A model of the HTAS control plane: the Task Packer's placement          *)
(* algorithms and scheduling loop, the Autoscaler, the Resource Profiler   *)
(* and the Instance Cleaner.  The four daemons are independent processes   *)
(* that meet only in the orchestrator's object store, so each has a        *)
(* specification of its own over the shared store variables.               *)
(*                                                                         *)
(* Quantities: CPU is counted in whole cores, memory in MiB.  A            *)
(* NodeProfile's cpuCapacity is in millicores, as the Profiler writes it.  *)
(***************************************************************************)
EXTENDS Integers, Sequences, FiniteSets, TLC

VARIABLES
    fnKind,      \* which scheduling function the harness called
    fnPod,       \* its pod argument
    fnNodes,     \* its node_group argument (a list of NodeProfile specs)
    fnResult,    \* what it returned
    pods,        \* object store: pod name -> pod
    nodes,       \* object store: node name -> node
    profiles,    \* object store: the NodeProfile specs, in list order
    asrs,        \* object store: the AutoScaleRequest records
    clock,       \* time.time(), in seconds
    pk,          \* the Task Packer process: its position and its locals
    az,          \* the Autoscaler process: its position and its locals
    pf,          \* the Resource Profiler process: its position and its locals
    cl,          \* the Instance Cleaner process: its position and its locals
    ca           \* the Cloud Adapter object, its caller and the cloud's instances

fnVars == <<fnKind, fnPod, fnNodes, fnResult>>

vars == <<fnKind, fnPod, fnNodes, fnResult, pods, nodes, profiles, asrs, clock,
          pk, az, pf, cl, ca>>

\* What each daemon leaves alone.
notHarness == <<pods, nodes, profiles, asrs, clock, pk, az, pf, cl, ca>>
notPacker == <<fnVars, nodes, az, pf, cl, ca>>
notAutoscaler == <<fnVars, nodes, clock, pk, pf, cl, ca>>
notProfiler == <<fnVars, asrs, clock, pk, az, cl, ca>>
notCleaner == <<fnVars, profiles, asrs, clock, pk, az, pf, ca>>
notAdapter == <<fnVars, profiles, asrs, clock, pk, az, pf, cl>>

(***************************************************************************)
(* Bounds of the model.                                                    *)
(***************************************************************************)
MaxNodes == 3
MaxCpu == 1
MaxMem == 2
MaxPods == 2
MaxClock == 21
MaxTicks == 1
MaxRequests == 2

\* Python's None, as a node name.
None == "None"

\* scaling_cycle = 300 in schedule_pods and autoscale_loop.
ScalingCycle == 300

(***************************************************************************)
(* Sequence helpers.                                                       *)
(***************************************************************************)
\* All sequences over S of length 0..n.
SeqsUpTo(S, n) == UNION {[1..k -> S] : k \in 0..n}

Range(s) == {s[i] : i \in 1..Len(s)}

(***************************************************************************)
(* Task Packer: bfd_algorithm.                                             *)
(***************************************************************************)
\* A slip in the filter: the memory comparison is forgotten.
SuitableCpuOnly(node, pod) ==
    node.cpuAvailable >= pod.cpu

\* The condition of the filtering loop.
Suitable(node, pod) ==
    node.cpuAvailable >= pod.cpu /\ node.memoryAvailable >= pod.mem

RECURSIVE FilterSuitable(_, _)
FilterSuitable(node_group, pod) ==
    IF node_group = <<>> THEN <<>>
    ELSE LET rest == FilterSuitable(Tail(node_group), pod)
         IN  IF Suitable(Head(node_group), pod)
             THEN <<Head(node_group)>> \o rest
             ELSE rest

\* A slip in the sort: an unstable sort that puts an element before its equals.
RECURSIVE InsertByMemoryUnstable(_, _)
InsertByMemoryUnstable(sorted, node) ==
    IF sorted = <<>> THEN <<node>>
    ELSE IF Head(sorted).memoryAvailable < node.memoryAvailable
         THEN <<Head(sorted)>> \o InsertByMemoryUnstable(Tail(sorted), node)
         ELSE <<node>> \o sorted

\* list.sort(key=memoryAvailable) is stable: an element goes behind every
\* element of the sorted prefix whose key is not greater than its own.
RECURSIVE InsertByMemory(_, _)
InsertByMemory(sorted, node) ==
    IF sorted = <<>> THEN <<node>>
    ELSE IF Head(sorted).memoryAvailable <= node.memoryAvailable
         THEN <<Head(sorted)>> \o InsertByMemory(Tail(sorted), node)
         ELSE <<node>> \o sorted

RECURSIVE SortByMemoryFrom(_, _)
SortByMemoryFrom(sorted, rest) ==
    IF rest = <<>> THEN sorted
    ELSE SortByMemoryFrom(InsertByMemory(sorted, Head(rest)), Tail(rest))

SortByMemory(node_list) == SortByMemoryFrom(<<>>, node_list)

bfd_algorithm(pod, node_group) ==
    LET suitable_nodes == SortByMemory(FilterSuitable(node_group, pod))
    IN  IF suitable_nodes # <<>> THEN suitable_nodes[1].instanceName ELSE None

(***************************************************************************)
(* Task Packer: get_pod_runtime and time_bin_bfd.                          *)
(***************************************************************************)
\* The 'runtime' annotation is <<>> when the pod has none, <<v>> otherwise.
get_pod_runtime(pod) ==
    IF pod.runtime = <<>> THEN 300 ELSE pod.runtime[1]

\* sorted(S): the members of a finite set of integers, ascending.
RECURSIVE Sorted(_)
Sorted(S) ==
    IF S = {} THEN <<>>
    ELSE LET m == CHOOSE x \in S : \A y \in S : x <= y
         IN  <<m>> \o Sorted(S \ {m})

\* sorted(S, reverse=True).
RECURSIVE SortedReverse(_)
SortedReverse(S) ==
    IF S = {} THEN <<>>
    ELSE LET m == CHOOSE x \in S : \A y \in S : x >= y
         IN  <<m>> \o SortedReverse(S \ {m})

\* node_runtime // scaling_cycle (floor division).
NodeBin(node, scaling_cycle) == node.runtime \div scaling_cycle

\* The keys of the dict bins.
BinKeys(batch_node_group, scaling_cycle) ==
    {NodeBin(batch_node_group[i], scaling_cycle) : i \in 1..Len(batch_node_group)}

\* bins[b]: the nodes of bin b, in the order of batch_node_group.
RECURSIVE BinNodes(_, _, _)
BinNodes(batch_node_group, b, scaling_cycle) ==
    IF batch_node_group = <<>> THEN <<>>
    ELSE LET rest == BinNodes(Tail(batch_node_group), b, scaling_cycle)
         IN  IF NodeBin(Head(batch_node_group), scaling_cycle) = b
             THEN <<Head(batch_node_group)>> \o rest
             ELSE rest

\* A slip in the order: the earlier bins are walked before the later ones.
BinOrderEarlierFirst(bin_number, keys) ==
    <<bin_number>> \o SortedReverse({x \in keys : x < bin_number})
                  \o Sorted({x \in keys : x > bin_number})

\* The list the for loop of time_bin_bfd walks.
BinOrder(bin_number, keys) ==
    <<bin_number>> \o Sorted({x \in keys : x > bin_number})
                  \o SortedReverse({x \in keys : x < bin_number})

RECURSIVE TimeBinSearch(_, _, _, _)
TimeBinSearch(pod, batch_node_group, order, scaling_cycle) ==
    IF order = <<>> THEN None
    ELSE LET b == Head(order)
             node_name ==
                 IF b \in BinKeys(batch_node_group, scaling_cycle)
                 THEN bfd_algorithm(pod, BinNodes(batch_node_group, b, scaling_cycle))
                 ELSE None
         IN  IF node_name # None THEN node_name
             ELSE TimeBinSearch(pod, batch_node_group, Tail(order), scaling_cycle)

time_bin_bfd(pod, batch_node_group, scaling_cycle) ==
    LET bin_number == get_pod_runtime(pod) \div scaling_cycle
    IN  TimeBinSearch(pod, batch_node_group,
                      BinOrder(bin_number, BinKeys(batch_node_group, scaling_cycle)),
                      scaling_cycle)

(***************************************************************************)
(* A harness for the two placement functions: the arguments are drawn in   *)
(* the initial state and one call is made on them.                         *)
(***************************************************************************)
\* Node names, by position in the profile list.
NodeName(i) == "batch-" \o ToString(i)

Named(s) ==
    [i \in 1..Len(s) |->
        [instanceName |-> NodeName(i), cpuAvailable |-> s[i].cpuAvailable,
         memoryAvailable |-> s[i].memoryAvailable, runtime |-> s[i].runtime]]

\* Ages of the nodes and runtime annotations of the pods the harness draws.
NodeRuntimes == {0, 299, 300, 650, 1400}
PodRuntimes == {<<>>, <<0>>, <<650>>, <<900>>}

\* Arguments that vary in their resources.
FnInitBfd ==
    /\ fnNodes \in {Named(s) : s \in SeqsUpTo(
           [cpuAvailable : 0..MaxCpu, memoryAvailable : 0..MaxMem, runtime : {0}],
           MaxNodes)}
    /\ fnPod \in [cpu : 0..MaxCpu, mem : 0..MaxMem, runtime : {<<>>}]

\* Arguments that vary in their time bins.
FnInitTimeBin ==
    /\ fnNodes \in {Named(s) : s \in SeqsUpTo(
           [cpuAvailable : {1}, memoryAvailable : {MaxMem - 1, MaxMem},
            runtime : NodeRuntimes],
           MaxNodes)}
    /\ fnPod \in [cpu : {1}, mem : {MaxMem - 1, MaxMem}, runtime : PodRuntimes]

\* The harness runs no daemon: the store is empty and stays so.
IdleStore ==
    /\ pods = <<>>
    /\ nodes = <<>>
    /\ profiles = <<>>
    /\ asrs = {}
    /\ clock = 0

IdlePacker == pk = [pc |-> "off"]

IdleAutoscaler == az = [pc |-> "off"]

IdleProfiler == pf = [pc |-> "off"]

IdleCleaner == cl = [pc |-> "off"]

IdleAdapter == ca = [pc |-> "off"]

FnInit ==
    /\ fnKind = "none"
    /\ fnResult = None
    /\ (FnInitBfd \/ FnInitTimeBin)
    /\ IdleStore
    /\ IdlePacker /\ IdleAutoscaler /\ IdleProfiler /\ IdleCleaner /\ IdleAdapter

CallBfd ==
    /\ fnKind = "none"
    /\ fnKind' = "bfd"
    /\ fnResult' = bfd_algorithm(fnPod, fnNodes)
    /\ UNCHANGED <<fnPod, fnNodes, notHarness>>

CallTimeBinBfd ==
    /\ fnKind = "none"
    /\ fnKind' = "time_bin_bfd"
    /\ fnResult' = time_bin_bfd(fnPod, fnNodes, ScalingCycle)
    /\ UNCHANGED <<fnPod, fnNodes, notHarness>>

FnNext == CallBfd \/ CallTimeBinBfd

SpecSched == FnInit /\ [][FnNext]_vars

(***************************************************************************)
(* The object store, as the daemons see it.                                *)
(***************************************************************************)
PodName(i) == "task-" \o ToString(i)
LongrunningNodeName(i) == "longrunning-" \o ToString(i)

\* "longrunning" in instance_name.lower() and "batch" in instance_name.lower(),
\* for the node names of the model.
NameHasLongrunning(name) == \E i \in 1..(MaxNodes + 1) : name = LongrunningNodeName(i)
NameHasBatch(name) == \E i \in 1..(MaxNodes + 1) : name = NodeName(i)

\* The pods of the store in list order.
PodList == [i \in 1..MaxPods |-> PodName(i)]

RECURSIVE SelectNames(_, _)
SelectNames(names, S) ==
    IF names = <<>> THEN <<>>
    ELSE IF Head(names) \in S THEN <<Head(names)>> \o SelectNames(Tail(names), S)
         ELSE SelectNames(Tail(names), S)

\* The fields of a pod the daemons read.
PodView(name) ==
    [name |-> name, wtype |-> pods[name].wtype, cpu |-> pods[name].cpu,
     mem |-> pods[name].mem, runtime |-> pods[name].runtime]

(***************************************************************************)
(* Task Packer: get_pending_pods, get_node_profiles, trigger_autoscaling   *)
(* and the loop of schedule_pods.                                          *)
(***************************************************************************)
get_pending_pods ==
    LET names == SelectNames(PodList,
                    {n \in DOMAIN pods : /\ pods[n].phase = "Pending"
                                         /\ pods[n].scheduler = "htas-scheduler"})
    IN  [i \in 1..Len(names) |-> PodView(names[i])]

RECURSIVE SelectProfiles(_, _)
SelectProfiles(node_profiles, longrunning) ==
    IF node_profiles = <<>> THEN <<>>
    ELSE LET spec == Head(node_profiles)
             rest == SelectProfiles(Tail(node_profiles), longrunning)
             mine == IF longrunning
                     THEN NameHasLongrunning(spec.instanceName)
                     ELSE /\ ~ NameHasLongrunning(spec.instanceName)
                          /\ NameHasBatch(spec.instanceName)
         IN  IF mine THEN <<spec>> \o rest ELSE rest

\* The head of the loop: the pending pods are listed; when there are some,
\* the profiles are read from the Profiler, else from the store, else [].
\* pk.read keeps whether a read succeeded, pk.bound the pods the cycle bound.
PackerFetch ==
    /\ pk.pc = "sleep"
    /\ IF get_pending_pods = <<>>
       THEN /\ clock + 20 <= MaxClock
            /\ clock' = clock + 20
            /\ pk' = [pk EXCEPT !.cycle = {}, !.bound = {}]
       ELSE /\ \E node_profiles \in {profiles, <<>>} :
                  pk' = [pc |-> "loop",
                         pending |-> get_pending_pods,
                         long_running_nodes |-> SelectProfiles(node_profiles, TRUE),
                         batch_nodes |-> SelectProfiles(node_profiles, FALSE),
                         cycle |-> Range(get_pending_pods),
                         ticks |-> 0, bound |-> {},
                         read |-> IF node_profiles = profiles THEN "read" ELSE "failed"]
            /\ clock' = clock
    /\ UNCHANGED <<notPacker, pods, profiles, asrs>>

\* The node the loop body picks for a pod.
TargetNode(pod) ==
    IF pod.wtype = "long-running"
    THEN bfd_algorithm(pod, pk.long_running_nodes)
    ELSE time_bin_bfd(pod, pk.batch_nodes, ScalingCycle)

\* request_name = f"asr-{int(time.time())}-{workload_type}".
RequestName(workload_type) == [secs |-> clock, wtype |-> workload_type]

\* The loop body were the orchestrator to take a binding for a bound pod.
PackerBindAgain ==
    /\ pk.pc = "loop" /\ pk.pending # <<>>
    /\ LET pod == Head(pk.pending)
           target_node == TargetNode(pod)
       IN  /\ target_node # None
           /\ pod.name \in DOMAIN pods
           /\ pods' = [pods EXCEPT ![pod.name].node = target_node]
    /\ pk' = [pk EXCEPT !.pending = Tail(@), !.bound = @ \cup {Head(pk.pending).name}]
    /\ UNCHANGED <<notPacker, profiles, asrs, clock>>

\* The loop body for the next pod with a target: create_namespaced_binding
\* succeeds on a pod that exists and is not bound yet.
PackerBind ==
    /\ pk.pc = "loop" /\ pk.pending # <<>>
    /\ LET pod == Head(pk.pending)
           target_node == TargetNode(pod)
       IN  /\ target_node # None
           /\ pod.name \in DOMAIN pods
           /\ pods[pod.name].node = None
           /\ pods' = [pods EXCEPT ![pod.name].node = target_node]
    /\ pk' = [pk EXCEPT !.pending = Tail(@), !.bound = @ \cup {Head(pk.pending).name}]
    /\ UNCHANGED <<notPacker, profiles, asrs, clock>>

\* The loop body for the next pod with a target, the binding call raising:
\* the error is printed and the loop goes on.
PackerBindError ==
    /\ pk.pc = "loop" /\ pk.pending # <<>>
    /\ TargetNode(Head(pk.pending)) # None
    /\ pk' = [pk EXCEPT !.pending = Tail(@)]
    /\ UNCHANGED <<notPacker, pods, profiles, asrs, clock>>

\* The loop body were the store to replace the record of a name it holds.
PackerRequestReplace ==
    /\ pk.pc = "loop" /\ pk.pending # <<>>
    /\ LET pod == Head(pk.pending)
       IN  /\ TargetNode(pod) = None
           /\ asrs' = {r \in asrs : r.name # RequestName(pod.wtype)}
                          \cup {[name |-> RequestName(pod.wtype),
                                  workloadType |-> pod.wtype,
                                  podNames |-> <<pod.name>>]}
    /\ pk' = [pk EXCEPT !.pending = Tail(@)]
    /\ UNCHANGED <<notPacker, pods, profiles, clock>>

\* The loop body for the next pod without a target: trigger_autoscaling
\* creates a request for this one pod; the store takes a name once.
PackerRequest ==
    /\ pk.pc = "loop" /\ pk.pending # <<>>
    /\ LET pod == Head(pk.pending)
       IN  /\ TargetNode(pod) = None
           /\ \A r \in asrs : r.name # RequestName(pod.wtype)
           /\ asrs' = asrs \cup {[name |-> RequestName(pod.wtype),
                                   workloadType |-> pod.wtype,
                                   podNames |-> <<pod.name>>]}
    /\ pk' = [pk EXCEPT !.pending = Tail(@)]
    /\ UNCHANGED <<notPacker, pods, profiles, clock>>

\* The loop body for the next pod without a target, the create call raising
\* (the name is taken, or the store is unavailable): the error is printed.
PackerRequestError ==
    /\ pk.pc = "loop" /\ pk.pending # <<>>
    /\ TargetNode(Head(pk.pending)) = None
    /\ pk' = [pk EXCEPT !.pending = Tail(@)]
    /\ UNCHANGED <<notPacker, pods, profiles, asrs, clock>>

\* The end of the for loop: time.sleep(20).
PackerSleep ==
    /\ pk.pc = "loop" /\ pk.pending = <<>>
    /\ clock + 20 <= MaxClock
    /\ clock' = clock + 20
    /\ pk' = [pk EXCEPT !.pc = "sleep"]
    /\ UNCHANGED <<notPacker, pods, profiles, asrs>>

\* A second passes while the loop runs.
PackerTick ==
    /\ pk.pc = "loop" /\ pk.pending # <<>>
    /\ clock < MaxClock /\ pk.ticks < MaxTicks
    /\ clock' = clock + 1
    /\ pk' = [pk EXCEPT !.ticks = @ + 1]
    /\ UNCHANGED <<notPacker, pods, profiles, asrs>>

\* The node's kubelet starts a pod that is bound to it.  The Packer reads a
\* pod's phase only when it lists the pending pods, so the start is taken
\* between two cycles.
KubeletStart ==
    /\ pk.pc = "sleep"
    /\ \E n \in DOMAIN pods :
          /\ pods[n].phase = "Pending" /\ pods[n].node # None
          /\ pods' = [pods EXCEPT ![n].phase = "Running"]
    /\ UNCHANGED <<notPacker, profiles, asrs, clock, pk>>

\* int(float(capacity['cpu']) * 1000): cpuCapacity is in millicores.
MillicoresPerCore == 1000

\* A profile as the Profiler writes it for a node without running pods.
FreshProfile(name, cores, mem) ==
    [instanceName |-> name, cpuCapacity |-> cores * MillicoresPerCore,
     memoryCapacity |-> mem,
     cpuAvailable |-> cores, memoryAvailable |-> mem, runtime |-> 0]

PackerInit ==
    /\ fnKind = "none" /\ fnResult = None /\ fnPod = <<>> /\ fnNodes = <<>>
    /\ pods \in [{PodName(i) : i \in 1..MaxPods} ->
                    [phase : {"Pending"}, node : {None},
                     wtype : {"batch", "long-running", "gpu"},
                     cpu : {1}, mem : {1}, runtime : {<<>>},
                     scheduler : {"htas-scheduler", "default-scheduler"}]]
    /\ \E m1 \in {0, MaxMem}, m2 \in {0, MaxMem} :
          profiles = <<FreshProfile(LongrunningNodeName(1), 1, m1),
                       FreshProfile(NodeName(1), 1, m2)>>
    /\ asrs = {}
    /\ clock = 0
    /\ pk = [pc |-> "sleep", pending |-> <<>>, long_running_nodes |-> <<>>,
             batch_nodes |-> <<>>, cycle |-> {}, ticks |-> 0, read |-> "read",
             bound |-> {}]
    /\ nodes = <<>>
    /\ IdleAutoscaler /\ IdleProfiler /\ IdleCleaner /\ IdleAdapter

PackerNext ==
    \/ PackerFetch
    \/ PackerBind
    \/ PackerBindError
    \/ PackerRequest
    \/ PackerRequestError
    \/ PackerSleep
    \/ PackerTick
    \/ KubeletStart

SpecPacker == PackerInit /\ [][PackerNext]_vars

\* The Packer over two batch nodes whose stored profiles the Profiler
\* rewrites between cycles: the memory left on a node changes as pods start
\* and end on it, so a pod that is listed again can get another target.
MemoryLeft == {0, 1, MaxMem}

ProfilesChange ==
    /\ pk.pc = "sleep"
    /\ \E i \in 1..Len(profiles), m \in MemoryLeft :
          /\ m # profiles[i].memoryAvailable
          /\ profiles' = [profiles EXCEPT ![i].memoryAvailable = m,
                                           ![i].memoryCapacity = m]
    /\ UNCHANGED <<notPacker, pods, asrs, clock, pk>>

RebindInit ==
    /\ fnKind = "none" /\ fnResult = None /\ fnPod = <<>> /\ fnNodes = <<>>
    /\ pods \in [{PodName(i) : i \in 1..MaxPods} ->
                    [phase : {"Pending"}, node : {None},
                     wtype : {"batch"}, cpu : {1}, mem : {1}, runtime : {<<>>},
                     scheduler : {"htas-scheduler"}]]
    /\ \E m1 \in MemoryLeft, m2 \in MemoryLeft :
          profiles = <<FreshProfile(NodeName(1), 1, m1),
                       FreshProfile(NodeName(2), 1, m2)>>
    /\ asrs = {}
    /\ clock = 0
    /\ pk = [pc |-> "sleep", pending |-> <<>>, long_running_nodes |-> <<>>,
             batch_nodes |-> <<>>, cycle |-> {}, ticks |-> 0, read |-> "read",
             bound |-> {}]
    /\ nodes = <<>>
    /\ IdleAutoscaler /\ IdleProfiler /\ IdleCleaner /\ IdleAdapter

RebindNext == PackerNext \/ ProfilesChange

SpecRebind == RebindInit /\ [][RebindNext]_vars

(***************************************************************************)
(* Autoscaler: calculate_score, greedy_autoscaling, batch_node_autoscaling.*)
(* A score is the exact fraction num/den with den > 0; prices are counted  *)
(* in 1/PriceScale dollars.                                                *)
(***************************************************************************)
PriceScale == 5000

VM_FLAVORS ==
    <<[name |-> "e2-micro", cpu |-> 2, memory |-> 1, price |-> 30],
      [name |-> "e2-standard-2", cpu |-> 2, memory |-> 8, price |-> 343]>>

Min(a, b) == IF a <= b THEN a ELSE b

\* (0.5 * min(cpu_usage / cpu, 1.0) + 0.5 * min(memory_usage / memory, 1.0)) / price
calculate_score(flavor, cpu_usage, memory_usage) ==
    [num |-> (Min(cpu_usage, flavor.cpu) * flavor.memory
              + Min(memory_usage, flavor.memory) * flavor.cpu) * PriceScale,
     den |-> 2 * flavor.cpu * flavor.memory * flavor.price]

\* score > best_score
ScoreGreater(score, best_score) ==
    score.num * best_score.den > best_score.num * score.den

RECURSIVE SumCpu(_)
SumCpu(pod_list) ==
    IF pod_list = <<>> THEN 0 ELSE Head(pod_list).cpu + SumCpu(Tail(pod_list))

RECURSIVE SumMem(_)
SumMem(pod_list) ==
    IF pod_list = <<>> THEN 0 ELSE Head(pod_list).mem + SumMem(Tail(pod_list))

\* The for loop over vm_flavors: best is <<>> for None, else <<flavor>>.
RECURSIVE BestFlavor(_, _, _, _, _)
BestFlavor(vm_flavors, total_cpu, total_mem, best, best_score) ==
    IF vm_flavors = <<>> THEN best
    ELSE LET flavor == Head(vm_flavors)
             score == calculate_score(flavor, Min(total_cpu, flavor.cpu),
                                      Min(total_mem, flavor.memory))
         IN  IF ScoreGreater(score, best_score)
             THEN BestFlavor(Tail(vm_flavors), total_cpu, total_mem, <<flavor>>, score)
             ELSE BestFlavor(Tail(vm_flavors), total_cpu, total_mem, best, best_score)

\* The while loop of greedy_autoscaling.
RECURSIVE GreedyLoop(_, _, _, _)
GreedyLoop(total_cpu, total_mem, vm_flavors, selected) ==
    IF total_cpu > 0 \/ total_mem > 0
    THEN LET best == BestFlavor(vm_flavors, total_cpu, total_mem, <<>>,
                                [num |-> -1, den |-> 1])
         IN  IF best = <<>> THEN selected
             ELSE GreedyLoop(total_cpu - best[1].cpu, total_mem - best[1].memory,
                             vm_flavors, Append(selected, best[1]))
    ELSE selected

greedy_autoscaling(pending_pods, vm_flavors) ==
    GreedyLoop(SumCpu(pending_pods), SumMem(pending_pods), vm_flavors, <<>>)

ZeroBinNodesAnyAge(batch_nodes, scaling_cycle) == batch_nodes

\* zero_bin_nodes: the batch profiles with runtime < scaling_cycle.
RECURSIVE ZeroBinNodes(_, _)
ZeroBinNodes(batch_nodes, scaling_cycle) ==
    IF batch_nodes = <<>> THEN <<>>
    ELSE IF Head(batch_nodes).runtime < scaling_cycle
         THEN <<Head(batch_nodes)>> \o ZeroBinNodes(Tail(batch_nodes), scaling_cycle)
         ELSE ZeroBinNodes(Tail(batch_nodes), scaling_cycle)

RECURSIVE SumCpuCapacity(_)
SumCpuCapacity(node_list) ==
    IF node_list = <<>> THEN 0
    ELSE Head(node_list).cpuCapacity + SumCpuCapacity(Tail(node_list))

RECURSIVE SumMemoryCapacity(_)
SumMemoryCapacity(node_list) ==
    IF node_list = <<>> THEN 0
    ELSE Head(node_list).memoryCapacity + SumMemoryCapacity(Tail(node_list))

\* The totals of batch_node_autoscaling after its subtraction loop: the
\* requests are in cores and MiB, and what is subtracted is cpuCapacity and
\* memoryCapacity as the profiles hold them.
BatchTotals(pending_pods, batch_nodes, scaling_cycle) ==
    LET zero_bin_nodes == ZeroBinNodes(batch_nodes, scaling_cycle)
    IN  [cpu |-> SumCpu(pending_pods) - SumCpuCapacity(zero_bin_nodes),
         mem |-> SumMem(pending_pods) - SumMemoryCapacity(zero_bin_nodes)]

batch_node_autoscaling(pending_pods, batch_nodes, scaling_cycle, vm_flavors) ==
    LET total == BatchTotals(pending_pods, batch_nodes, scaling_cycle)
    IN  IF total.cpu <= 0 /\ total.mem <= 0 THEN <<>>
        ELSE greedy_autoscaling(pending_pods, vm_flavors)

(***************************************************************************)
(* greedy_autoscaling as a function: a catalog of up to MaxFlavors flavors *)
(* with positive cpu, memory and price, one pending pod that carries the   *)
(* demand, and one call.  fnNodes holds the catalog, fnPod the pods.       *)
(***************************************************************************)
MaxFlavors == 2

\* The flavors of the module's catalog, and cheaper and dearer variants.
FlavorChoices ==
    {VM_FLAVORS[1], VM_FLAVORS[2]}
        \cup [name : {"f"}, cpu : {1, 2}, memory : {1, 8}, price : {30, 343}]

\* The demands: nothing, a little, and 4 cpu with 16 of memory.
DemandCpu == {0, 1, 4}
DemandMem == {0, 1, 16}

GreedyInit ==
    /\ fnKind = "greedy" /\ fnResult = None
    /\ fnNodes \in SeqsUpTo(FlavorChoices, MaxFlavors)
    /\ \E cpu \in DemandCpu, mem \in DemandMem :
          fnPod = <<[name |-> PodName(1), wtype |-> "long-running", cpu |-> cpu,
                     mem |-> mem, runtime |-> <<>>]>>
    /\ IdleStore /\ nodes = <<>>
    /\ IdlePacker /\ IdleAutoscaler /\ IdleProfiler /\ IdleCleaner /\ IdleAdapter

CallGreedy ==
    /\ fnKind = "greedy"
    /\ fnResult' = greedy_autoscaling(fnPod, fnNodes)
    /\ fnKind' = "greedy-done"
    /\ UNCHANGED <<fnPod, fnNodes, notHarness>>

GreedyNext == CallGreedy

SpecGreedy == GreedyInit /\ [][GreedyNext]_vars

(***************************************************************************)
(* Autoscaler: scale_gke_node_pool and the loop of autoscale_loop.         *)
(***************************************************************************)
NODE_POOL_MAPPING ==
    [w \in {"batch", "long-running"} |->
        IF w = "batch" THEN "batch-pool" ELSE "longrunning-pool"]

\* What a call of scale_gke_node_pool comes to.  Without a pool for the
\* workload type it returns at once.  With one, the try block reads
\* os.environ first, and the module never imports os: the NameError is
\* caught by the except clause, which prints it, before the pool is read or
\* resized.
\* requested is the size setSize was called with, <<>> when it was not called.
scale_gke_node_pool_adding(workload_type, needed_nodes) ==
    IF workload_type \notin DOMAIN NODE_POOL_MAPPING
    THEN [outcome |-> "no-mapping", requested |-> <<>>]
    ELSE LET pool == az.pools[NODE_POOL_MAPPING[workload_type]]
             target_size == Min(pool.nodeCount + needed_nodes, pool.maxNodeCount)
         IN  IF target_size <= pool.nodeCount
             THEN [outcome |-> "no-scale-up", requested |-> <<>>]
             ELSE [outcome |-> "ok", requested |-> <<target_size>>]

scale_gke_node_pool(workload_type, needed_nodes) ==
    IF workload_type \notin DOMAIN NODE_POOL_MAPPING
    THEN [outcome |-> "no-mapping", requested |-> <<>>]
    ELSE [outcome |-> "failed", requested |-> <<>>]

\* The node pools after a call of scale_gke_node_pool, and the calls made so
\* far: for which request, pool and pending pods, and with which size
\* requested.
PoolsAfter(pools, workload_type, call) ==
    IF call.requested = <<>> THEN pools
    ELSE [pools EXCEPT ![NODE_POOL_MAPPING[workload_type]].nodeCount = call.requested[1]]

CallsAfter(calls, req, pending_pods, call) ==
    IF call.outcome = "no-mapping" THEN calls
    ELSE calls \cup {[request |-> req.name,
                      pool |-> NODE_POOL_MAPPING[req.workloadType],
                      pending |-> [k \in DOMAIN pending_pods |-> pending_pods[k].name],
                      requested |-> call.requested]}

\* The pods of a request that were read and are Pending, in podNames order.
RECURSIVE PendingOf(_, _)
PendingOf(pod_names, readable) ==
    IF pod_names = <<>> THEN <<>>
    ELSE LET name == Head(pod_names)
             rest == PendingOf(Tail(pod_names), readable)
         IN  IF name \in readable /\ pods[name].phase = "Pending"
             THEN <<PodView(name)>> \o rest
             ELSE rest

\* The profiles whose instanceName contains "batch".
RECURSIVE BatchProfiles(_)
BatchProfiles(nodes_data) ==
    IF nodes_data = <<>> THEN <<>>
    ELSE IF NameHasBatch(Head(nodes_data).instanceName)
         THEN <<Head(nodes_data)>> \o BatchProfiles(Tail(nodes_data))
         ELSE BatchProfiles(Tail(nodes_data))

\* All orders of a finite set.
Orders(S) == {q \in [1..Cardinality(S) -> S] : Range(q) = S}

\* fetch_autoscale_requests: the list of the store, or [] when the call raises.
AutoscalerFetch ==
    /\ az.pc = "sleep"
    /\ \E queue \in Orders(asrs) \cup {<<>>} :
          az' = [az EXCEPT !.pc = "loop", !.queue = queue, !.last = <<>>]
    /\ UNCHANGED <<notAutoscaler, pods, profiles, asrs>>

\* The pods of the next request a read of which may succeed.
Readable(req) == Range(req.podNames) \cap DOMAIN pods

\* The loop body for a request none of whose pods was read as Pending:
\* continue.
AutoscalerSkip ==
    /\ az.pc = "loop" /\ az.queue # <<>>
    /\ LET req == Head(az.queue)
       IN  \E readable \in SUBSET Readable(req) :
              /\ PendingOf(req.podNames, readable) = <<>>
              /\ az' = [az EXCEPT !.queue = Tail(@),
                                  !.last = <<[name |-> req.name,
                                            workloadType |-> req.workloadType,
                                            pending_pods |-> <<>>,
                                            batch_nodes |-> <<>>,
                                            total |-> [cpu |-> 0, mem |-> 0],
                                            vms_needed |-> <<>>,
                                            greedy |-> FALSE,
                                            resize |-> "not-called",
                                            requested |-> <<>>,
                                            pools |-> az.pools,
                                            deleteCalled |-> FALSE]>>]
    /\ UNCHANGED <<notAutoscaler, pods, profiles, asrs>>

\* The end of the loop body: the delete call removes the request, or raises.
DeleteRequest(req) ==
    \/ asrs' = {r \in asrs : r.name # req.name}
    \/ asrs' = asrs

\* The loop body for a long-running request with Pending pods.
AutoscalerLongRunning ==
    /\ az.pc = "loop" /\ az.queue # <<>>
    /\ LET req == Head(az.queue)
       IN  /\ req.workloadType = "long-running"
           /\ \E readable \in SUBSET Readable(req) :
                 LET pending_pods == PendingOf(req.podNames, readable)
                     vms_needed == greedy_autoscaling(pending_pods, VM_FLAVORS)
                     call == scale_gke_node_pool(req.workloadType, Len(vms_needed))
                 IN  /\ pending_pods # <<>>
                     /\ az' = [az EXCEPT
                            !.queue = Tail(@),
                            !.pools = PoolsAfter(@, req.workloadType, call),
                            !.calls = CallsAfter(@, req, pending_pods, call),
                            !.last = <<[name |-> req.name,
                                      workloadType |-> req.workloadType,
                                      pending_pods |-> pending_pods,
                                      batch_nodes |-> <<>>,
                                      total |-> [cpu |-> SumCpu(pending_pods),
                                                 mem |-> SumMem(pending_pods)],
                                      vms_needed |-> vms_needed,
                                      greedy |-> TRUE,
                                      resize |-> call.outcome,
                                      requested |-> call.requested,
                                      pools |-> az.pools,
                                      deleteCalled |-> TRUE]>>]
           /\ DeleteRequest(req)
    /\ UNCHANGED <<notAutoscaler, pods, profiles>>

\* The loop body for a request of any other type with Pending pods: the
\* profiles are listed (batch_nodes stays [] when the call raises).
AutoscalerBatch ==
    /\ az.pc = "loop" /\ az.queue # <<>>
    /\ LET req == Head(az.queue)
       IN  /\ req.workloadType # "long-running"
           /\ \E readable \in SUBSET Readable(req),
                 batch_nodes \in {BatchProfiles(profiles), <<>>} :
                 LET pending_pods == PendingOf(req.podNames, readable)
                     total == BatchTotals(pending_pods, batch_nodes, ScalingCycle)
                     vms_needed == batch_node_autoscaling(pending_pods, batch_nodes,
                                                          ScalingCycle, VM_FLAVORS)
                     call == scale_gke_node_pool(req.workloadType, Len(vms_needed))
                 IN  /\ pending_pods # <<>>
                     /\ az' = [az EXCEPT
                            !.queue = Tail(@),
                            !.pools = PoolsAfter(@, req.workloadType, call),
                            !.calls = CallsAfter(@, req, pending_pods, call),
                            !.last = <<[name |-> req.name,
                                      workloadType |-> req.workloadType,
                                      pending_pods |-> pending_pods,
                                      batch_nodes |-> batch_nodes,
                                      total |-> total,
                                      vms_needed |-> vms_needed,
                                      greedy |-> ~ (total.cpu <= 0 /\ total.mem <= 0),
                                      resize |-> call.outcome,
                                      requested |-> call.requested,
                                      pools |-> az.pools,
                                      deleteCalled |-> TRUE]>>]
           /\ DeleteRequest(req)
    /\ UNCHANGED <<notAutoscaler, pods, profiles>>

\* The end of the for loop: time.sleep(30).
AutoscalerSleep ==
    /\ az.pc = "loop" /\ az.queue = <<>>
    /\ az' = [az EXCEPT !.pc = "sleep", !.queue = <<>>, !.last = <<>>]
    /\ UNCHANGED <<notAutoscaler, pods, profiles, asrs>>

\* The node pools as the cloud holds them when the Autoscaler starts.
PoolNodeCount == 1
PoolMaxNodeCount == 3

SleepingAutoscaler ==
    [pc |-> "sleep", queue |-> <<>>, last |-> <<>>,
     pools |-> [p \in {"batch-pool", "longrunning-pool"} |->
                   [nodeCount |-> PoolNodeCount, maxNodeCount |-> PoolMaxNodeCount]],
     calls |-> {}]

\* The requests the store may hold: one pod each, as the Packer writes them.
RequestsOf(secs) ==
    {[name |-> [secs |-> t, wtype |-> w], workloadType |-> w, podNames |-> <<PodName(i)>>] :
        t \in secs, w \in {"batch", "long-running", "gpu"}, i \in 1..(MaxPods + 1)}

AutoscalerInit ==
    /\ fnKind = "none" /\ fnResult = None /\ fnPod = <<>> /\ fnNodes = <<>>
    /\ pods \in [{PodName(i) : i \in 1..MaxPods} ->
                    [phase : {"Pending", "Running"}, node : {None},
                     wtype : {"batch"}, cpu : 1..2, mem : {1}, runtime : {<<>>},
                     scheduler : {"htas-scheduler"}]]
    /\ \E mem \in {0, MaxMem}, age \in {0, ScalingCycle} :
          profiles = <<FreshProfile(LongrunningNodeName(1), 1, MaxMem),
                       [FreshProfile(NodeName(1), 1, mem) EXCEPT !.runtime = age]>>
    /\ asrs \in {R \in SUBSET RequestsOf({0}) :
                    /\ Cardinality(R) <= MaxRequests
                    /\ \A r1, r2 \in R : r1.name = r2.name => r1 = r2}
    /\ clock = 0
    /\ nodes = <<>>
    /\ az = SleepingAutoscaler
    /\ IdlePacker /\ IdleProfiler /\ IdleCleaner /\ IdleAdapter

AutoscalerNext ==
    \/ AutoscalerFetch
    \/ AutoscalerSkip
    \/ AutoscalerLongRunning
    \/ AutoscalerBatch
    \/ AutoscalerSleep

SpecAutoscaler == AutoscalerInit /\ [][AutoscalerNext]_vars

\* The steps of the loop in which every call to the object store succeeds:
\* the list returns the stored requests, every pod that exists is read, the
\* profiles are listed and the delete removes the request.
FetchSucceeds ==
    /\ AutoscalerFetch
    /\ az'.queue \in Orders(asrs)

SkipSucceeds ==
    /\ AutoscalerSkip
    /\ PendingOf(Head(az.queue).podNames, Readable(Head(az.queue))) = <<>>

LongRunningSucceeds ==
    /\ AutoscalerLongRunning
    /\ az'.last[1].pending_pods =
          PendingOf(Head(az.queue).podNames, Readable(Head(az.queue)))
    /\ asrs' = {r \in asrs : r.name # Head(az.queue).name}

BatchSucceeds ==
    /\ AutoscalerBatch
    /\ az'.last[1].pending_pods =
          PendingOf(Head(az.queue).podNames, Readable(Head(az.queue)))
    /\ az'.last[1].batch_nodes = BatchProfiles(profiles)
    /\ asrs' = {r \in asrs : r.name # Head(az.queue).name}

AutoscalerLiveNext ==
    \/ FetchSucceeds
    \/ SkipSucceeds
    \/ LongRunningSucceeds
    \/ BatchSucceeds
    \/ AutoscalerSleep

\* The loop keeps running (while True, time.sleep(30)).
SpecAutoscalerLive ==
    AutoscalerInit /\ [][AutoscalerLiveNext]_vars /\ WF_vars(AutoscalerLiveNext)

\* The Autoscaler over a store in which the Packer has emitted twice, twenty
\* seconds apart, for the same task, next to at most one other request.
AutoScaleRequest(secs, workload_type, i) ==
    [name |-> [secs |-> secs, wtype |-> workload_type],
     workloadType |-> workload_type, podNames |-> <<PodName(i)>>]

DuplicatesInit ==
    /\ fnKind = "none" /\ fnResult = None /\ fnPod = <<>> /\ fnNodes = <<>>
    /\ pods \in [{PodName(i) : i \in 1..MaxPods} ->
                    [phase : {"Pending", "Running"}, node : {None},
                     wtype : {"batch"}, cpu : {1}, mem : {1}, runtime : {<<>>},
                     scheduler : {"htas-scheduler"}]]
    /\ \E age \in {0, ScalingCycle} :
          profiles = <<FreshProfile(LongrunningNodeName(1), 1, MaxMem),
                       [FreshProfile(NodeName(1), 1, 0) EXCEPT !.runtime = age]>>
    /\ \E w \in {"batch", "long-running"}, i \in 1..MaxPods :
          \E others \in SUBSET {AutoScaleRequest(40, v, j) :
                                   v \in {"batch", "long-running"}, j \in 1..MaxPods} :
             /\ Cardinality(others) <= 1
             /\ asrs = {AutoScaleRequest(0, w, i), AutoScaleRequest(20, w, i)} \cup others
    /\ clock = 0
    /\ nodes = <<>>
    /\ az = SleepingAutoscaler
    /\ IdlePacker /\ IdleProfiler /\ IdleCleaner /\ IdleAdapter

SpecDuplicates == DuplicatesInit /\ [][AutoscalerNext]_vars

(***************************************************************************)
(* Resource Profiler: update_node_profiles.  The function's locals live    *)
(* across the iterations of its while loop: pf.loc.name is <<>> until a    *)
(* node was enumerated, pf.loc.size (capacity and allocatable) until a     *)
(* labelled node was, pf.loc.used (used_cpu and used_memory) until the     *)
(* pods of a labelled node were listed.  The arithmetic on quantities is   *)
(* written for numbers; pf.quantities says whether the client hands them   *)
(* over as numbers or, as the Kubernetes client does, as strings, on which *)
(* "0 + request" and "allocatable - used" raise a TypeError.               *)
(* The statements from "cpu_available = ..." on stand after the for loop,  *)
(* so one profile is written per reconcile, from the locals as the loop    *)
(* left them.  (instanceType, which no daemon reads, is left out.)         *)
(***************************************************************************)
SystemNodeName(i) == "system-" \o ToString(i)

\* "workload" in labels
HasWorkloadLabel(node) == node.workload # <<>>

RECURSIVE RequestedCpu(_)
RequestedCpu(S) ==
    IF S = {} THEN 0
    ELSE LET p == CHOOSE q \in S : TRUE IN pods[p].cpu + RequestedCpu(S \ {p})

RECURSIVE RequestedMemory(_)
RequestedMemory(S) ==
    IF S = {} THEN 0
    ELSE LET p == CHOOSE q \in S : TRUE IN pods[p].mem + RequestedMemory(S \ {p})

\* The Running pods among the pods listed for a node.
RunningOn(name) ==
    {p \in DOMAIN pods : pods[p].node = name /\ pods[p].phase = "Running"}

UsedCpu(name) == RequestedCpu(RunningOn(name))
UsedMemory(name) == RequestedMemory(RunningOn(name))

\* capacity and allocatable as the loop body reads them from a node.
NodeSize(name) ==
    <<[capacityCpu |-> nodes[name].capacityCpu,
       allocatableCpu |-> nodes[name].allocatableCpu,
       allocatableMemory |-> nodes[name].allocatableMemory]>>

\* The locals after the loop body ran for one node.
ProfilerVisit(loc, name) ==
    IF HasWorkloadLabel(nodes[name])
    THEN [name |-> <<name>>,
          size |-> NodeSize(name),
          used |-> <<[cpu |-> UsedCpu(name), memory |-> UsedMemory(name)]>>]
    ELSE [loc EXCEPT !.name = <<name>>]

\* The locals after the for loop over the listed nodes.
RECURSIVE ProfilerWalk(_, _)
ProfilerWalk(loc, order) ==
    IF order = <<>> THEN loc
    ELSE ProfilerWalk(ProfilerVisit(loc, Head(order)), Tail(order))

\* Every local the statements after the loop read is bound.
LocalsBound(loc) == loc.size # <<>> /\ loc.used # <<>>

\* The body handed to the store.
ProfileBody(loc) ==
    LET cpu_available == loc.size[1].allocatableCpu - loc.used[1].cpu
        memory_available == loc.size[1].allocatableMemory - loc.used[1].memory
    IN  [instanceName |-> loc.name[1],
         cpuCapacity |-> loc.size[1].capacityCpu * MillicoresPerCore,
         memoryCapacity |-> memory_available,
         cpuAvailable |-> cpu_available,
         memoryAvailable |-> memory_available,
         runtime |-> 0]

\* get, then replace; create when get raises.
Upsert(stored, body) ==
    IF \E i \in 1..Len(stored) : stored[i].instanceName = body.instanceName
    THEN [i \in 1..Len(stored) |->
             IF stored[i].instanceName = body.instanceName THEN body ELSE stored[i]]
    ELSE Append(stored, body)

\* One reconcile whose calls all succeed.
ProfilerReconcile ==
    /\ pf.pc = "sleep" /\ pf.quantities = "number"
    /\ \E order \in Orders(DOMAIN nodes) :
          LET loc == ProfilerWalk(pf.loc, order)
          IN  /\ LocalsBound(loc)
              /\ profiles' = Upsert(profiles, ProfileBody(loc))
              /\ pf' = [pf EXCEPT !.loc = loc]
    /\ UNCHANGED <<notProfiler, pods, nodes>>

\* One reconcile whose write raises an ApiException (replace fails, or get
\* fails for a stored profile and create then conflicts): it is printed.
ProfilerWriteError ==
    /\ pf.pc = "sleep" /\ pf.quantities = "number"
    /\ \E order \in Orders(DOMAIN nodes) :
          LET loc == ProfilerWalk(pf.loc, order)
          IN  /\ LocalsBound(loc)
              /\ pf' = [pf EXCEPT !.loc = loc]
    /\ UNCHANGED <<notProfiler, pods, nodes, profiles>>

\* One reconcile in which the pod list of a labelled node raises an
\* ApiException: name, capacity and allocatable are that node's already,
\* used_cpu and used_memory are not, and nothing is written.
ProfilerPodListError ==
    /\ pf.pc = "sleep"
    /\ \E order \in Orders(DOMAIN nodes), k \in 1..Cardinality(DOMAIN nodes) :
          LET before == ProfilerWalk(pf.loc, SubSeq(order, 1, k - 1))
              node == nodes[order[k]]
          IN  /\ HasWorkloadLabel(node)
              /\ pf.quantities = "string" =>
                    \A j \in 1..(k - 1) :
                        HasWorkloadLabel(nodes[order[j]]) => RunningOn(order[j]) = {}
              /\ pf' = [pf EXCEPT !.loc =
                          [name |-> <<order[k]>>, size |-> NodeSize(order[k]),
                           used |-> before.used]]
    /\ UNCHANGED <<notProfiler, pods, nodes, profiles>>

\* One reconcile after whose loop allocatable or used_cpu is still unbound (no
\* labelled node was ever listed with its pods), or whose quantities are
\* strings: the UnboundLocalError or TypeError is no ApiException and ends
\* the update thread.
ProfilerCrash ==
    /\ pf.pc = "sleep"
    /\ \E order \in Orders(DOMAIN nodes) :
          LET loc == ProfilerWalk(pf.loc, order)
          IN  /\ pf.quantities = "string" \/ ~LocalsBound(loc)
              /\ pf' = [pf EXCEPT !.pc = "crashed", !.loc = loc]
    /\ UNCHANGED <<notProfiler, pods, nodes, profiles>>

\* A node leaves the cluster (the Instance Cleaner's api.delete_node).
NodeLeaves ==
    /\ \E name \in DOMAIN nodes :
          nodes' = [n \in DOMAIN nodes \ {name} |-> nodes[n]]
    /\ UNCHANGED <<notProfiler, pods, profiles, pf>>

\* A pod bound to a node of the cluster is started by its kubelet.
PodStarts ==
    /\ \E p \in DOMAIN pods :
          /\ pods[p].phase = "Pending" /\ pods[p].node \in DOMAIN nodes
          /\ pods' = [pods EXCEPT ![p].phase = "Running"]
    /\ UNCHANGED <<notProfiler, nodes, profiles, pf>>

\* The Profiler's cluster: a batch node, a long-running node and a node
\* without the workload label, any of them present; tasks bound to the
\* labelled nodes; and a store that is empty or holds the batch node's
\* NodeProfile with a runtime-age of nought or of one scaling cycle.
ClusterNode(workload, allocatableCpu) ==
    [workload |-> workload, capacityCpu |-> MaxCpu + 1,
     allocatableCpu |-> allocatableCpu,
     capacityMemory |-> MaxMem, allocatableMemory |-> MaxMem, unschedulable |-> FALSE]

ProfilerInit ==
    /\ fnKind = "none" /\ fnResult = None /\ fnPod = <<>> /\ fnNodes = <<>>
    /\ \E present \in SUBSET {NodeName(1), LongrunningNodeName(1), SystemNodeName(1)},
          a \in 1..(MaxCpu + 1) :
          nodes = [n \in present |->
                      IF n = NodeName(1) THEN ClusterNode(<<"batch">>, a)
                      ELSE IF n = LongrunningNodeName(1)
                           THEN ClusterNode(<<"longrunning">>, MaxCpu + 1)
                           ELSE ClusterNode(<<>>, MaxCpu + 1)]
    /\ pods \in [{PodName(i) : i \in 1..MaxPods} ->
                    [phase : {"Pending", "Running"},
                     node : {NodeName(1), LongrunningNodeName(1)},
                     wtype : {"batch"}, cpu : 1..MaxCpu, mem : {1}, runtime : {<<>>},
                     scheduler : {"htas-scheduler"}]]
    /\ \E age \in {0, ScalingCycle} :
          profiles \in {<<>>, <<[FreshProfile(NodeName(1), 1, MaxMem) EXCEPT !.runtime = age]>>}
    /\ asrs = {}
    /\ clock = 0
    /\ \E q \in {"number", "string"} :
          pf = [pc |-> "sleep", quantities |-> q,
                loc |-> [name |-> <<>>, size |-> <<>>, used |-> <<>>]]
    /\ IdlePacker /\ IdleAutoscaler /\ IdleCleaner /\ IdleAdapter

ProfilerNext ==
    \/ ProfilerReconcile
    \/ ProfilerWriteError
    \/ ProfilerPodListError
    \/ ProfilerCrash
    \/ NodeLeaves
    \/ PodStarts

SpecProfiler == ProfilerInit /\ [][ProfilerNext]_vars

(***************************************************************************)
(* Instance Cleaner: reschedule_node and migrate_container.  The script    *)
(* itself stops at its last statement ("_name_" is not defined) and        *)
(* check_underutilized_nodes at its call of calculate_node_utilization     *)
(* ("nodse_name"), so reschedule_node is driven here as a function, for    *)
(* any batch node, up to MaxCalls times.  Every external call (kubectl,    *)
(* orchestrator, cloud) either takes effect or raises without effect.      *)
(* cl.report is the history of the call in progress or last returned.      *)
(* CPU is counted in thousandths of a core.                                *)
(***************************************************************************)
MaxCalls == 2

\* float(request.replace('m', '')) / 1000: "1000m" is read as one core, "1"
\* as a thousandth of one.  cl.notation is the way the tasks' requests are
\* written.
CleanerCpu(cores) ==
    IF cl.notation = "millicores" THEN cores * MillicoresPerCore ELSE cores

\* A listed pod or node as the Cleaner holds it.
PodObject(name) ==
    [name |-> name, node |-> pods[name].node, wtype |-> pods[name].wtype,
     cpu |-> pods[name].cpu, mem |-> pods[name].mem]

NodeObject(name) ==
    [name |-> name, allocatableCpu |-> nodes[name].allocatableCpu,
     allocatableMemory |-> nodes[name].allocatableMemory]

check_node_resources(node, pod) ==
    LET pod_cpu == CleanerCpu(pod.cpu)
        pod_memory == pod.mem
        current_cpu == CleanerCpu(RequestedCpu(RunningOn(node.name)))
        current_memory == RequestedMemory(RunningOn(node.name))
        cpu_available == node.allocatableCpu * MillicoresPerCore - current_cpu
        memory_available == node.allocatableMemory - current_memory
    IN  cpu_available >= pod_cpu /\ memory_available >= pod_memory

\* The first candidate with room for the pod, or None.
RECURSIVE FirstTarget(_, _)
FirstTarget(candidate_nodes, pod) ==
    IF candidate_nodes = <<>> THEN None
    ELSE IF check_node_resources(Head(candidate_nodes), pod)
         THEN Head(candidate_nodes).name
         ELSE FirstTarget(Tail(candidate_nodes), pod)

MigrationSteps == <<"checkpoint", "export", "create", "import", "restore", "delete">>

new_pod_name(pod_name) == pod_name \o "-migrated"

\* The replica: the original's labels and containers, pinned to the target;
\* annotations and schedulerName are not copied.
ReplicaOf(pod, target_node) ==
    [phase |-> "Pending", node |-> target_node, wtype |-> pod.wtype,
     cpu |-> pod.cpu, mem |-> pod.mem, runtime |-> <<>>,
     scheduler |-> "default-scheduler"]

\* What a step needs in order to succeed: kubectl exec and cp need a running
\* container, create a free name, delete an existing pod.
StepCanSucceed(step, pod, store) ==
    LET replica == new_pod_name(pod.name)
    IN  CASE step \in {"checkpoint", "export"} ->
               pod.name \in DOMAIN store /\ store[pod.name].phase = "Running"
          [] step = "create" -> replica \notin DOMAIN store
          [] step \in {"import", "restore"} ->
               replica \in DOMAIN store /\ store[replica].phase = "Running"
          [] step = "delete" -> pod.name \in DOMAIN store

StepEffectMove(step, pod, target_node, store) ==
    LET replica == new_pod_name(pod.name)
    IN  CASE step = "create" ->
               [n \in (DOMAIN store \ {pod.name}) \cup {replica} |->
                   IF n = replica THEN ReplicaOf(pod, target_node) ELSE store[n]]
          [] step = "delete" -> [n \in DOMAIN store \ {pod.name} |-> store[n]]
          [] OTHER -> store

\* The pods after a step that succeeded.
StepEffect(step, pod, target_node, store) ==
    LET replica == new_pod_name(pod.name)
    IN  CASE step = "create" ->
               [n \in DOMAIN store \cup {replica} |->
                   IF n = replica THEN ReplicaOf(pod, target_node) ELSE store[n]]
          [] step = "delete" -> [n \in DOMAIN store \ {pod.name} |-> store[n]]
          [] OTHER -> store

\* The Running pods of a node that carry the label workload-type: batch.
BatchPodsOn(node_name) ==
    {p \in RunningOn(node_name) : pods[p].wtype = "batch"}

\* The other nodes with the label workload: batch.
CandidateNames(node_name) ==
    {n \in DOMAIN nodes : n # node_name /\ nodes[n].workload = <<"batch">>}

RescheduleCalled(node_name) ==
    /\ cl.pc = "ready" /\ cl.calls < MaxCalls
    /\ node_name \in DOMAIN nodes /\ nodes[node_name].workload = <<"batch">>

NewReport(node_name) ==
    <<[node |-> node_name, was |-> nodes[node_name], gone |-> cl.deprovisioned,
       started |-> BatchPodsOn(node_name), failed |-> <<>>, aborted |-> FALSE,
       running |-> [n \in DOMAIN nodes |-> RunningOn(n)],
       requests |-> [p \in DOMAIN pods |-> [cpu |-> pods[p].cpu, mem |-> pods[p].mem]]]>>

\* reschedule_node returns False at once: no batch pods, or no candidates.
RescheduleSkip ==
    /\ \E node_name \in DOMAIN nodes :
          /\ RescheduleCalled(node_name)
          /\ BatchPodsOn(node_name) = {} \/ CandidateNames(node_name) = {}
          /\ cl' = [cl EXCEPT !.calls = @ + 1, !.node = node_name,
                               !.report = NewReport(node_name)]
    /\ UNCHANGED <<notCleaner, pods, nodes>>

\* One of the two list calls raises: the exception leaves reschedule_node.
RescheduleListError ==
    /\ \E node_name \in DOMAIN nodes :
          /\ RescheduleCalled(node_name)
          /\ cl' = [cl EXCEPT !.calls = @ + 1, !.node = node_name,
                               !.report = NewReport(node_name)]
    /\ UNCHANGED <<notCleaner, pods, nodes>>

\* reschedule_node lists the batch pods and the candidates and enters its loop.
RescheduleBegin ==
    /\ \E node_name \in DOMAIN nodes :
          /\ RescheduleCalled(node_name)
          /\ BatchPodsOn(node_name) # {} /\ CandidateNames(node_name) # {}
          /\ \E listed \in Orders(BatchPodsOn(node_name)),
                cands \in Orders(CandidateNames(node_name)) :
                cl' = [cl EXCEPT !.pc = "loop", !.calls = @ + 1, !.node = node_name,
                         !.batch_pods = [k \in DOMAIN listed |-> PodObject(listed[k])],
                         !.candidate_nodes = [k \in DOMAIN cands |-> NodeObject(cands[k])],
                         !.i = 1, !.migration_success = TRUE,
                         !.report = NewReport(node_name)]
    /\ UNCHANGED <<notCleaner, pods, nodes>>

\* reschedule_node is left, by return or by an exception: its locals are gone.
Left(c) ==
    [c EXCEPT !.pc = "ready", !.batch_pods = <<>>, !.candidate_nodes = <<>>,
              !.i = 0, !.target = None, !.step = 0, !.migration_success = TRUE]

\* The loop finds a target for the next pod and enters migrate_container.
CleanerTarget ==
    /\ cl.pc = "loop"
    /\ LET target == FirstTarget(cl.candidate_nodes, cl.batch_pods[cl.i])
       IN  /\ target # None
           /\ cl' = [cl EXCEPT !.pc = "migrate", !.target = target, !.step = 1]
    /\ UNCHANGED <<notCleaner, pods, nodes>>

\* The loop finds no target: migration_success = False; break.
CleanerNoTarget ==
    /\ cl.pc = "loop"
    /\ FirstTarget(cl.candidate_nodes, cl.batch_pods[cl.i]) = None
    /\ cl' = [cl EXCEPT !.pc = "after", !.migration_success = FALSE,
                         !.report = <<[@[1] EXCEPT !.aborted = TRUE]>>]
    /\ UNCHANGED <<notCleaner, pods, nodes>>

\* The pod list of check_node_resources raises: the exception leaves
\* reschedule_node.
CleanerCheckError ==
    /\ cl.pc = "loop"
    /\ cl' = Left(cl)
    /\ UNCHANGED <<notCleaner, pods, nodes>>

\* The current step of migrate_container succeeds; after the last one the
\* migration returns True and the loop goes on.
MigrateStepOk ==
    /\ cl.pc = "migrate"
    /\ LET pod == cl.batch_pods[cl.i]
           step == MigrationSteps[cl.step]
       IN  /\ StepCanSucceed(step, pod, pods)
           /\ pods' = StepEffect(step, pod, cl.target, pods)
           /\ cl' = IF cl.step < Len(MigrationSteps)
                        THEN [cl EXCEPT !.step = @ + 1]
                     ELSE IF cl.i < Len(cl.batch_pods)
                        THEN [cl EXCEPT !.pc = "loop", !.i = @ + 1]
                     ELSE [cl EXCEPT !.pc = "after"]
    /\ UNCHANGED <<notCleaner, nodes>>

\* The current step raises, were the loop to go on to the pods that follow.
MigrateStepFailGoesOn ==
    /\ cl.pc = "migrate"
    /\ LET pod == cl.batch_pods[cl.i]
           noted == [cl EXCEPT !.migration_success = FALSE,
                       !.report = <<[@[1] EXCEPT
                           !.failed = <<[pod |-> pod.name, source |-> pod.node,
                                         step |-> MigrationSteps[cl.step]]>>,
                           !.aborted = TRUE]>>]
       IN  cl' = IF cl.i < Len(cl.batch_pods)
                 THEN [noted EXCEPT !.pc = "loop", !.i = @ + 1]
                 ELSE [noted EXCEPT !.pc = "after"]
    /\ UNCHANGED <<notCleaner, pods, nodes>>

\* The current step raises: migrate_container prints and returns False, and
\* the loop breaks with migration_success = False.
MigrateStepFail ==
    /\ cl.pc = "migrate"
    /\ LET pod == cl.batch_pods[cl.i]
       IN  cl' = [cl EXCEPT !.pc = "after", !.migration_success = FALSE,
                    !.report = <<[@[1] EXCEPT
                        !.failed = <<[pod |-> pod.name, source |-> pod.node,
                                      step |-> MigrationSteps[cl.step]]>>,
                        !.aborted = TRUE]>>]
    /\ UNCHANGED <<notCleaner, pods, nodes>>

ProceedAlways(c) == TRUE

\* if migration_success:
ProceedToDeprovision(c) == c.migration_success

\* Cordon, delete the node object, delete the VM.  A failure of the first
\* two ends the call with False; one of the VM deletion is only printed.
CleanerDeprovision ==
    /\ cl.pc = "after" /\ ProceedToDeprovision(cl)
    /\ \E outcome \in {"cordon-failed", "delete-failed", "vm-failed", "done"} :
          /\ outcome # "cordon-failed" => cl.node \in DOMAIN nodes
          /\ nodes' = CASE outcome = "cordon-failed" -> nodes
                         [] outcome = "delete-failed" ->
                              [nodes EXCEPT ![cl.node].unschedulable = TRUE]
                         [] OTHER -> [n \in DOMAIN nodes \ {cl.node} |-> nodes[n]]
          /\ cl' = [Left(cl) EXCEPT
                      !.deprovisioned = IF outcome = "done" THEN @ \cup {cl.node} ELSE @]
    /\ UNCHANGED <<notCleaner, pods>>

\* The migrations were not all successful: return False.
CleanerAbort ==
    /\ cl.pc = "after" /\ ~ProceedToDeprovision(cl)
    /\ cl' = Left(cl)
    /\ UNCHANGED <<notCleaner, pods, nodes>>

\* The Cleaner's cluster: two batch nodes and a long-running node, and tasks
\* of either class, Pending or Running, on the first batch node; the second
\* has room for one task or more.
CleanerInit ==
    /\ fnKind = "none" /\ fnResult = None /\ fnPod = <<>> /\ fnNodes = <<>>
    /\ \E a \in 1..(MaxCpu + 1) :
          nodes = [n \in {NodeName(1), NodeName(2), LongrunningNodeName(1)} |->
                      IF n = NodeName(1) THEN ClusterNode(<<"batch">>, MaxCpu + 1)
                      ELSE IF n = NodeName(2) THEN ClusterNode(<<"batch">>, a)
                           ELSE ClusterNode(<<"longrunning">>, MaxCpu + 1)]
    /\ pods \in [{PodName(i) : i \in 1..MaxPods} ->
                    [phase : {"Pending", "Running"},
                     node : {NodeName(1)},
                     wtype : {"batch", "long-running"},
                     cpu : {1}, mem : {1}, runtime : {<<>>},
                     scheduler : {"htas-scheduler"}]]
    /\ profiles = <<>> /\ asrs = {} /\ clock = 0
    /\ \E notation \in {"millicores", "cores"} :
          cl = [pc |-> "ready", notation |-> notation, calls |-> 0, node |-> None,
                batch_pods |-> <<>>, candidate_nodes |-> <<>>, i |-> 0,
                target |-> None, step |-> 0, migration_success |-> TRUE,
                deprovisioned |-> {}, report |-> <<>>]
    /\ IdlePacker /\ IdleAutoscaler /\ IdleProfiler /\ IdleAdapter

CleanerNext ==
    \/ RescheduleSkip
    \/ RescheduleListError
    \/ RescheduleBegin
    \/ CleanerTarget
    \/ CleanerNoTarget
    \/ CleanerCheckError
    \/ MigrateStepOk
    \/ MigrateStepFail
    \/ CleanerDeprovision
    \/ CleanerAbort
    \/ PodStarts

SpecCleaner == CleanerInit /\ [][CleanerNext]_vars

\* The Cleaner as a loop whose external calls succeed: a cycle calls
\* reschedule_node for batch nodes, sleeps and begins anew (cl.calls counts
\* the calls of the cycle); no list call raises, every migration step
\* succeeds (the replica has started when the checkpoint is copied into it),
\* and cordon, node deletion and VM deletion succeed.
CleanerCycle ==
    /\ cl.pc = "ready" /\ cl.calls > 0
    /\ cl' = [cl EXCEPT !.calls = 0]
    /\ UNCHANGED <<notCleaner, pods, nodes>>

DeprovisionSucceeds ==
    /\ CleanerDeprovision
    /\ cl.node \notin DOMAIN nodes'
    /\ cl.node \in cl'.deprovisioned

\* reschedule_node is called for the node.
RescheduleNode(name) ==
    /\ RescheduleSkip \/ RescheduleBegin
    /\ cl'.node = name

CleanerLiveNext ==
    \/ RescheduleSkip
    \/ RescheduleBegin
    \/ CleanerTarget
    \/ CleanerNoTarget
    \/ MigrateStepOk
    \/ DeprovisionSucceeds
    \/ CleanerAbort
    \/ PodStarts
    \/ CleanerCycle

\* The loop keeps running, and every cycle gets to every batch node.
SpecCleanerLive ==
    /\ CleanerInit /\ [][CleanerLiveNext]_vars
    /\ WF_vars(CleanerLiveNext)
    /\ \A name \in {NodeName(1), NodeName(2)} : SF_vars(RescheduleNode(name))

(***************************************************************************)
(* Cloud Adapter: deploy_pod, provision_vm, deprovision_vm and             *)
(* _wait_for_operation, called on one CloudAdapter object up to            *)
(* MaxAdapterCalls times.  The class names its constructor _init_, so      *)
(* CloudAdapter() sets no attribute; ca.initialised says whether the       *)
(* caller has run _init_ by hand.  ca.script holds what the orchestrator   *)
(* and the cloud answer to the next requests ("ok", a transient            *)
(* "unavailable", or another "error"; "ok" once it is used up), ca.vms the *)
(* instances that exist, ca.last the history of the call in progress or    *)
(* last returned, and ca.polls the polls of the operation waited for,      *)
(* counted modulo MaxPolls + 1.                                            *)
(***************************************************************************)
MaxAdapterCalls == 2
MaxVms == 2
MaxScript == 2
MaxPolls == 3

VmName(i) == "vm-" \o ToString(i)

\* The answer to the next request, and the answers after it.
NextAnswer(script) == IF script = <<>> THEN "ok" ELSE Head(script)
LaterAnswers(script) == IF script = <<>> THEN <<>> ELSE Tail(script)

AdapterCalled == ca.pc = "ready" /\ ca.calls < MaxAdapterCalls

\* The record of a call: the requests it sent (attempts), what it returned
\* ("pending" until it does) and whether it took effect.
CallRecord(op, arg, attempts, result, done) ==
    <<[op |-> op, arg |-> arg, script |-> ca.script, initialised |-> ca.initialised,
       existed |-> arg \in ca.vms, attempts |-> attempts, result |-> result,
       done |-> done]>>

\* deploy_pod: one create_namespaced_binding; any exception is printed, and
\* the function returns None either way.  The orchestrator rejects the
\* binding of a pod that is bound.
deploy_pod ==
    /\ AdapterCalled
    /\ \E pod_name \in DOMAIN pods, target_node \in DOMAIN nodes :
          LET sent == ca.initialised
              bound == /\ sent /\ NextAnswer(ca.script) = "ok"
                       /\ pods[pod_name].node = None
          IN  /\ pods' = IF bound THEN [pods EXCEPT ![pod_name].node = target_node]
                          ELSE pods
              /\ ca' = [ca EXCEPT
                          !.calls = @ + 1,
                          !.script = IF sent THEN LaterAnswers(@) ELSE @,
                          !.last = CallRecord("deploy_pod", pod_name,
                                              IF sent THEN 1 ELSE 0, "None", bound)]
    /\ UNCHANGED <<notAdapter, nodes>>

\* provision_vm up to the answer to instances().insert.  self.zone is read
\* before the try block, so without _init_ the AttributeError leaves the
\* function; an insert that is refused (the name exists, or an error) is
\* printed and None returned; otherwise the operation is waited for.
provision_vm ==
    /\ AdapterCalled
    /\ \E instance_name \in {VmName(i) : i \in 1..MaxVms} :
          LET accepted == /\ NextAnswer(ca.script) = "ok"
                          /\ instance_name \notin ca.vms
          IN  ca' = IF ~ca.initialised
                    THEN [ca EXCEPT !.calls = @ + 1,
                            !.last = CallRecord("provision_vm", instance_name, 0,
                                                "raised", FALSE)]
                    ELSE IF accepted
                    THEN [ca EXCEPT !.pc = "waiting", !.calls = @ + 1, !.polls = 0,
                            !.script = LaterAnswers(@),
                            !.last = CallRecord("provision_vm", instance_name, 1,
                                                "pending", FALSE)]
                    ELSE [ca EXCEPT !.calls = @ + 1, !.script = LaterAnswers(@),
                            !.last = CallRecord("provision_vm", instance_name, 1,
                                                "None", FALSE)]
    /\ UNCHANGED <<notAdapter, pods, nodes>>

\* deprovision_vm up to the answer to instances().delete: without _init_,
\* for an instance that does not exist (404) and on any other error the
\* exception is printed and False returned; otherwise the operation is
\* waited for.
deprovision_vm ==
    /\ AdapterCalled
    /\ \E instance_name \in {VmName(i) : i \in 1..MaxVms} :
          LET accepted == /\ NextAnswer(ca.script) = "ok"
                          /\ instance_name \in ca.vms
          IN  ca' = IF ~ca.initialised
                    THEN [ca EXCEPT !.calls = @ + 1,
                            !.last = CallRecord("deprovision_vm", instance_name, 0,
                                                "False", FALSE)]
                    ELSE IF accepted
                    THEN [ca EXCEPT !.pc = "waiting", !.calls = @ + 1, !.polls = 0,
                            !.script = LaterAnswers(@),
                            !.last = CallRecord("deprovision_vm", instance_name, 1,
                                                "pending", FALSE)]
                    ELSE [ca EXCEPT !.calls = @ + 1, !.script = LaterAnswers(@),
                            !.last = CallRecord("deprovision_vm", instance_name, 1,
                                                "False", FALSE)]
    /\ UNCHANGED <<notAdapter, pods, nodes>>

\* The instances once the operation waited for has been carried out.
VmsAfter(vms, call) ==
    IF call.op = "provision_vm" THEN vms \cup {call.arg} ELSE vms \ {call.arg}

\* What the function returns when the wait ends well, and when it raises.
ReturnedOnSuccess(call) == IF call.op = "provision_vm" THEN call.arg ELSE "True"
ReturnedOnFailure(call) == IF call.op = "provision_vm" THEN "None" ELSE "False"

\* _wait_for_operation finds the operation DONE without error.  (Until
\* then it polls every five seconds, without limit.)
OperationDone ==
    /\ ca.pc = "waiting"
    /\ ca' = [ca EXCEPT !.pc = "ready",
                 !.vms = VmsAfter(@, ca.last[1]),
                 !.last = <<[@[1] EXCEPT !.result = ReturnedOnSuccess(ca.last[1]), !.done = TRUE]>>]
    /\ UNCHANGED <<notAdapter, pods, nodes>>

\* _wait_for_operation finds the operation not DONE: time.sleep(5), and the
\* next poll.  The loop has no other exit than DONE and an exception.
OperationPending ==
    /\ ca.pc = "waiting"
    /\ ca' = [ca EXCEPT !.polls = (@ + 1) % (MaxPolls + 1)]
    /\ UNCHANGED <<notAdapter, pods, nodes>>

\* _wait_for_operation finds the operation DONE with an error and raises.
OperationFailed ==
    /\ ca.pc = "waiting"
    /\ ca' = [ca EXCEPT !.pc = "ready",
                 !.last = <<[@[1] EXCEPT !.result = ReturnedOnFailure(ca.last[1])]>>]
    /\ UNCHANGED <<notAdapter, pods, nodes>>

\* A poll of the operation raises: the function reports failure, while the
\* cloud carries the operation out.
OperationPollError ==
    /\ ca.pc = "waiting"
    /\ ca' = [ca EXCEPT !.pc = "ready",
                 !.vms = VmsAfter(@, ca.last[1]),
                 !.last = <<[@[1] EXCEPT !.result = ReturnedOnFailure(ca.last[1]), !.done = TRUE]>>]
    /\ UNCHANGED <<notAdapter, pods, nodes>>

AdapterInit ==
    /\ fnKind = "none" /\ fnResult = None /\ fnPod = <<>> /\ fnNodes = <<>>
    /\ nodes = [n \in {NodeName(1)} |-> ClusterNode(<<"batch">>, MaxCpu + 1)]
    /\ pods \in [{PodName(i) : i \in 1..1} ->
                    [phase : {"Pending"}, node : {None, NodeName(1)},
                     wtype : {"batch"}, cpu : {1}, mem : {1}, runtime : {<<>>},
                     scheduler : {"htas-scheduler"}]]
    /\ profiles = <<>> /\ asrs = {} /\ clock = 0
    /\ \E initialised \in BOOLEAN, vms \in SUBSET {VmName(i) : i \in 1..MaxVms},
          script \in SeqsUpTo({"ok", "unavailable", "error"}, MaxScript) :
          ca = [pc |-> "ready", initialised |-> initialised, vms |-> vms,
                script |-> script, calls |-> 0, last |-> <<>>, polls |-> 0]
    /\ IdlePacker /\ IdleAutoscaler /\ IdleProfiler /\ IdleCleaner

AdapterNext ==
    \/ deploy_pod
    \/ provision_vm
    \/ deprovision_vm
    \/ OperationDone
    \/ OperationPending
    \/ OperationFailed
    \/ OperationPollError

SpecAdapter == AdapterInit /\ [][AdapterNext]_vars

\* The adapter's caller and the polling loop keep running; the cloud is under
\* no obligation to finish an operation.
SpecAdapterLive == AdapterInit /\ [][AdapterNext]_vars /\ WF_vars(AdapterNext)

(***************************************************************************)
(* Properties of the placement functions.                                  *)
(***************************************************************************)
\* The i-th candidate has room for the pod on both resources.
Fits(i) ==
    /\ fnPod.cpu <= fnNodes[i].cpuAvailable
    /\ fnPod.mem <= fnNodes[i].memoryAvailable

Candidates == 1..Len(fnNodes)

\* C3: a node name returned by bfd_algorithm, called directly or through
\* time_bin_bfd, names a candidate with cpuAvailable >= the CPU request and
\* memoryAvailable >= the memory request; no node is returned exactly when
\* no candidate has room on both.
C3_BfdReturnsFittingNode ==
    fnKind # "none" =>
        /\ fnResult # None =>
               \E i \in Candidates : fnNodes[i].instanceName = fnResult /\ Fits(i)
        /\ fnResult = None <=> ~ \E i \in Candidates : Fits(i)

\* A call of bfd_algorithm that returned a node while some candidate had
\* enough CPU and too little memory.
C3_Witness ==
    /\ fnKind = "bfd"
    /\ fnResult # None
    /\ \E i \in Candidates :
          fnPod.cpu <= fnNodes[i].cpuAvailable /\ fnPod.mem > fnNodes[i].memoryAvailable

\* C4: among the candidates that fit, bfd_algorithm returns the one with the
\* smallest memoryAvailable, and of several with that memoryAvailable the one
\* that comes first in the profile list.
C4_BfdTightestMemoryFirst ==
    fnKind = "bfd" /\ fnResult # None =>
        \E i \in Candidates :
            /\ fnNodes[i].instanceName = fnResult
            /\ Fits(i)
            /\ \A j \in Candidates : Fits(j) =>
                   \/ fnNodes[i].memoryAvailable < fnNodes[j].memoryAvailable
                   \/ fnNodes[i].memoryAvailable = fnNodes[j].memoryAvailable /\ i <= j

\* Three fitting candidates: a looser one first, then two tied on the smallest
\* memoryAvailable, of which the earlier was returned.
C4_Witness ==
    /\ fnKind = "bfd"
    /\ Len(fnNodes) = 3
    /\ \A i \in Candidates : Fits(i)
    /\ fnNodes[1].memoryAvailable > fnNodes[2].memoryAvailable
    /\ fnNodes[2].memoryAvailable = fnNodes[3].memoryAvailable
    /\ fnResult = fnNodes[2].instanceName

\* floor(r / ScalingCycle), spelled out.
FloorBin(r) == CHOOSE k \in 0..(r + 1) : k * ScalingCycle <= r /\ r < (k + 1) * ScalingCycle

TaskBin == FloorBin(IF fnPod.runtime = <<>> THEN 300 ELSE fnPod.runtime[1])

\* The bins that hold a fitting node.
FittingBins == {FloorBin(fnNodes[i].runtime) : i \in {j \in Candidates : Fits(j)}}

\* Bin b is visited before bin c: the task's own bin first, then the later
\* bins ascending, then the earlier bins descending.
VisitedBefore(b, c) ==
    \/ b = TaskBin /\ c # TaskBin
    \/ b > TaskBin /\ c > b
    \/ b > TaskBin /\ c < TaskBin
    \/ b < TaskBin /\ c < b

\* C5: time_bin_bfd returns the BFD choice of the first bin holding a fitting
\* node, the bins visited in the order: the task's own bin, the bins above it
\* ascending, the bins below it descending; it returns no node only if no
\* candidate of any bin fits.
C5_TimeBinSearchOrder ==
    fnKind = "time_bin_bfd" =>
        /\ fnResult = None => FittingBins = {}
        /\ fnResult # None =>
               \E i \in Candidates :
                   /\ fnNodes[i].instanceName = fnResult
                   /\ Fits(i)
                   /\ \A c \in FittingBins :
                          c = FloorBin(fnNodes[i].runtime)
                          \/ VisitedBefore(FloorBin(fnNodes[i].runtime), c)
                   /\ \A j \in Candidates :
                          Fits(j) /\ FloorBin(fnNodes[j].runtime) = FloorBin(fnNodes[i].runtime) =>
                              \/ fnNodes[i].memoryAvailable < fnNodes[j].memoryAvailable
                              \/ fnNodes[i].memoryAvailable = fnNodes[j].memoryAvailable
                                 /\ i <= j

\* The task's own bin holds a node that does not fit, fitting nodes sit in a
\* later and in an earlier bin, and the later bin's node was returned.
C5_Witness ==
    /\ fnKind = "time_bin_bfd"
    /\ \E i \in Candidates : FloorBin(fnNodes[i].runtime) = TaskBin /\ ~ Fits(i)
    /\ TaskBin \notin FittingBins
    /\ \E b \in FittingBins : b > TaskBin
    /\ \E b \in FittingBins : b < TaskBin
    /\ \E i \in Candidates :
          fnNodes[i].instanceName = fnResult /\ FloorBin(fnNodes[i].runtime) > TaskBin

(***************************************************************************)
(* Properties of the Task Packer's cycle.                                  *)
(***************************************************************************)
\* The for loop of the cycle has handled its last pod.
PackerCycleEnded == pk.pc = "loop" /\ pk.pending = <<>>

Bound(name) == name \in DOMAIN pods /\ pods[name].node # None

Requested(name) == \E r \in asrs : name \in Range(r.podNames)

\* C1: at the end of every Packer cycle, every task that was Pending and
\* tagged htas-scheduler at the start of the cycle is bound to a node or named
\* in the podNames of an existing AutoScaleRequest, whatever the bind and the
\* create calls returned and also when several unplaced tasks of one class
\* are handled within the same second.
C1_PendingTaskBoundOrRequested ==
    PackerCycleEnded => \A pod \in pk.cycle : Bound(pod.name) \/ Requested(pod.name)

\* C23: in a Packer cycle in which the read from the Profiler and the read
\* from the object store both failed, no task is bound, no AutoScaleRequest
\* is created and the set of AutoScaleRequests stays as it was.
C23_FailedReadsSkipCycle ==
    [][pk.pc = "loop" /\ pk.read = "failed" =>
          /\ asrs' = asrs
          /\ \A name \in DOMAIN pods : pods'[name].node = pods[name].node]_vars

\* The pods the cycle has bound to the node.
BoundInCycleTo(name) == {p \in pk.bound : pods[p].node = name}

\* C25: in every Packer cycle and for every node, the CPU and the memory
\* requested by the tasks the cycle has bound to the node do not exceed the
\* cpuAvailable and memoryAvailable of the node's profile as the cycle read it.
C25_NoOverCommitInCycle ==
    pk.pc = "loop" =>
        \A spec \in Range(pk.long_running_nodes) \cup Range(pk.batch_nodes) :
            /\ RequestedCpu(BoundInCycleTo(spec.instanceName)) <= spec.cpuAvailable
            /\ RequestedMemory(BoundInCycleTo(spec.instanceName)) <= spec.memoryAvailable

\* The pod at the head of the loop is bound already and gets a target.
RebindAttempted ==
    /\ pk.pc = "loop" /\ pk.pending # <<>>
    /\ Bound(Head(pk.pending).name)
    /\ TargetNode(Head(pk.pending)) # None

\* C17: once a task is bound to a node, no step of a Packer cycle changes
\* the binding, also when the task is listed as Pending again and the Packer
\* picks another node for it: the loop body for such a task leaves every
\* binding as it is and the loop goes on with the tasks after it.
C17_BindingStable ==
    [][/\ \A name \in DOMAIN pods :
             Bound(name) => pods'[name].node = pods[name].node
       /\ RebindAttempted /\ pk' # pk /\ clock' = clock =>
             pk'.pc = "loop" /\ pk'.pending = Tail(pk.pending)]_vars

\* A cycle has ended in which a task bound to one node was listed and given
\* another node as its target.
C17_Witness ==
    /\ PackerCycleEnded
    /\ \E pod \in pk.cycle :
          /\ Bound(pod.name)
          /\ TargetNode(pod) \notin {None, pods[pod.name].node}

\* The pod at the head of the loop has no target, and the name its request
\* would get is the name of a stored request.
DuplicateCreate ==
    /\ pk.pc = "loop" /\ pk.pending # <<>>
    /\ TargetNode(Head(pk.pending)) = None
    /\ \E r \in asrs : r.name = RequestName(Head(pk.pending).wtype)

\* C18: creating an AutoScaleRequest under a name that exists changes
\* nothing: the stored record keeps its workloadType and podNames, the store
\* never holds two records of one name, and the loop goes on with the next
\* task.
C18_DuplicateRequestNoOp ==
    [][/\ \A r1 \in asrs', r2 \in asrs' : r1.name = r2.name => r1 = r2
       /\ DuplicateCreate /\ pk' # pk /\ clock' = clock =>
             /\ asrs' = asrs
             /\ pk'.pc = "loop" /\ pk'.pending = Tail(pk.pending)]_vars

\* The loop has handled a task for which it had no target within the second
\* in which it stored the request of a task before it: the store holds the
\* earlier task's record and none for the later one.
C18_Witness ==
    /\ pk.pc = "loop"
    /\ \E i \in 1..MaxPods, j \in 1..MaxPods :
          /\ i < j
          /\ PodView(PodName(j)) \in pk.cycle \ Range(pk.pending)
          /\ TargetNode(PodView(PodName(j))) = None
          /\ ~Requested(PodName(j))
          /\ \E r \in asrs : /\ r.name = RequestName(pods[PodName(j)].wtype)
                               /\ r.podNames = <<PodName(i)>>

(***************************************************************************)
(* Properties of the Autoscaler's cycle.  az.last holds what the loop body *)
(* did with the request it handled last.                                   *)
(***************************************************************************)
Handled == az.pc = "loop" /\ az.last # <<>>

StillStored(name) == \E r \in asrs : r.name = name

\* C26: with the loop running and the object-store calls succeeding, every
\* stored AutoScaleRequest is deleted in the end, also one whose tasks are
\* all bound, running or gone when the Autoscaler gets to it.
C26_RequestsEventuallyDeleted ==
    \A r \in RequestsOf({0}) : (r \in asrs) ~> (r \notin asrs)

\* The totals of a batch request fell to <= 0 in the zero-bin subtraction.
Zeroed(l) ==
    /\ l.workloadType = "batch"
    /\ l.pending_pods # <<>>
    /\ BatchTotals(l.pending_pods, l.batch_nodes, ScalingCycle).cpu <= 0
    /\ BatchTotals(l.pending_pods, l.batch_nodes, ScalingCycle).mem <= 0

\* C2: a request handled in an Autoscaler cycle is deleted in that cycle if
\* and only if its pool resize was issued and succeeded or it is a batch
\* request whose totals both fell to <= 0 after the zero-bin subtraction; a
\* request whose resize failed (cloud error, no pool for its type) is still
\* stored afterwards.
C2_DeletedIffResizedOrZeroed ==
    Handled =>
        LET l == az.last[1]
        IN  /\ l.deleteCalled <=> (l.resize = "ok" \/ Zeroed(l))
            /\ ~ (l.resize = "ok" \/ Zeroed(l)) => StillStored(l.name)

\* The CPU (in cores) and the memory (in MiB) of the zero-bin batch profiles
\* the Autoscaler read.
ZeroBinCores(l) ==
    LET zero_bin == SelectSeq(l.batch_nodes, LAMBDA n : n.runtime < ScalingCycle)
        Cores[i \in 0..Len(zero_bin)] ==
            IF i = 0 THEN 0 ELSE Cores[i - 1] + zero_bin[i].cpuCapacity \div MillicoresPerCore
    IN  Cores[Len(zero_bin)]

ZeroBinMiB(l) ==
    LET zero_bin == SelectSeq(l.batch_nodes, LAMBDA n : n.runtime < ScalingCycle)
        MiB[i \in 0..Len(zero_bin)] ==
            IF i = 0 THEN 0 ELSE MiB[i - 1] + zero_bin[i].memoryCapacity
    IN  MiB[Len(zero_bin)]

\* C10: for a batch request with at least one Pending task, the Autoscaler
\* skips provisioning (no flavor is selected, no resize is issued) and deletes
\* the request if and only if the zero-bin batch profiles' summed CPU
\* capacity in cores and summed memory capacity in MiB are each at least the
\* summed CPU (cores) and memory (MiB) requests of the Pending tasks;
\* otherwise it runs the greedy flavor selector.
C10_SkipsIffZeroBinCovers ==
    Handled /\ az.last[1].workloadType = "batch" /\ az.last[1].pending_pods # <<>> =>
        LET l == az.last[1]
            covered == /\ ZeroBinCores(l) >= SumCpu(l.pending_pods)
                       /\ ZeroBinMiB(l) >= SumMem(l.pending_pods)
            skipped == /\ ~ l.greedy /\ l.vms_needed = <<>>
                       /\ l.resize # "ok" /\ l.deleteCalled
        IN  /\ skipped <=> covered
            /\ ~ covered => l.greedy

\* The stored profiles of batch-pool nodes whose runtime-age is below the
\* scaling cycle.
EligibleProfiles ==
    SelectSeq(profiles, LAMBDA n : NameHasBatch(n.instanceName) /\ n.runtime < ScalingCycle)

\* C11: what the zero-bin subtraction takes off the totals of a batch request
\* is the capacity of the stored profiles of batch-pool nodes with runtime-age
\* < scaling_cycle and nothing else (nothing at all when the profiles could
\* not be listed): a profile with runtime-age >= scaling_cycle or of a node
\* outside the batch pool never reduces the totals.
C11_ZeroBinSubtractsEligibleOnly ==
    Handled /\ az.last[1].workloadType = "batch" /\ az.last[1].pending_pods # <<>> =>
        LET l == az.last[1]
            cpuTaken == SumCpu(l.pending_pods) - l.total.cpu
            memTaken == SumMem(l.pending_pods) - l.total.mem
        IN  IF l.batch_nodes = <<>>
            THEN cpuTaken = 0 /\ memTaken = 0
            ELSE /\ cpuTaken = SumCpuCapacity(EligibleProfiles)
                 /\ memTaken = SumMemoryCapacity(EligibleProfiles)

\* A batch request was handled with the profiles read, while the store held a
\* batch profile of runtime-age >= scaling_cycle and a younger profile of a
\* node outside the batch pool, and nothing was taken off the totals.
C11_Witness ==
    /\ Handled /\ az.last[1].workloadType = "batch" /\ az.last[1].pending_pods # <<>>
    /\ az.last[1].batch_nodes # <<>>
    /\ \E i \in 1..Len(profiles) :
          NameHasBatch(profiles[i].instanceName) /\ profiles[i].runtime >= ScalingCycle
    /\ \E i \in 1..Len(profiles) :
          /\ ~NameHasBatch(profiles[i].instanceName)
          /\ profiles[i].runtime < ScalingCycle /\ profiles[i].cpuCapacity > 0
    /\ az.last[1].total.cpu = SumCpu(az.last[1].pending_pods)

\* C14: for a handled request with k > 0 flavor picks on a pool of current
\* node count c and maxNodeCount M, the Autoscaler requests the size
\* min(c + k, M): never more than M, nothing when min(c + k, M) <= c, and
\* c + k when c + k <= M.
C14_ResizeToClampedSum ==
    /\ Handled /\ Len(az.last[1].vms_needed) > 0
    /\ az.last[1].workloadType \in DOMAIN NODE_POOL_MAPPING
    =>
        LET l == az.last[1]
            pool == l.pools[NODE_POOL_MAPPING[l.workloadType]]
            want == Min(pool.nodeCount + Len(l.vms_needed), pool.maxNodeCount)
        IN  /\ l.requested # <<>> => l.requested[1] <= pool.maxNodeCount
            /\ want > pool.nodeCount => l.requested = <<want>>
            /\ want <= pool.nodeCount => l.requested = <<>>

\* C15: the pool resize is idempotent under duplicate requests: every call
\* of scale_gke_node_pool made for the same pool on behalf of the same
\* Pending tasks requests the same size (or, each time, none), however many
\* requests naming those tasks are processed, in one cycle or in several.
C15_DuplicateRequestsSameSize ==
    \A a, b \in az.calls :
        a.pool = b.pool /\ a.pending = b.pending => a.requested = b.requested

\* Two requests emitted for the same Pending task were both processed as far
\* as the call of scale_gke_node_pool.
C15_Witness ==
    \E a, b \in az.calls :
        /\ a.request # b.request
        /\ a.pool = b.pool /\ a.pending = b.pending /\ a.pending # <<>>

(***************************************************************************)
(* Properties of the greedy flavor selector.                               *)
(***************************************************************************)
\* The call was made with the module's catalog and a demand of 4 cpu and 16
\* of memory.
ScenarioDemand ==
    /\ fnKind = "greedy-done" /\ fnNodes = VM_FLAVORS
    /\ SumCpu(fnPod) = 4 /\ SumMem(fnPod) = 16

\* C12: with the catalog {e2-micro (2, 1, 0.006), e2-standard-2 (2, 8, 0.0686)}
\* and the demand (4 cpu, 16 memory) the greedy selector returns exactly
\* [e2-standard-2, e2-standard-2].
C12_ScenarioPicksTwoStandard ==
    ScenarioDemand => fnResult = <<VM_FLAVORS[2], VM_FLAVORS[2]>>

RECURSIVE SumFlavorCpu(_)
SumFlavorCpu(selected) ==
    IF selected = <<>> THEN 0 ELSE Head(selected).cpu + SumFlavorCpu(Tail(selected))

RECURSIVE SumFlavorMemory(_)
SumFlavorMemory(selected) ==
    IF selected = <<>> THEN 0 ELSE Head(selected).memory + SumFlavorMemory(Tail(selected))

\* C13: for a non-empty catalog of flavors with positive cpu, memory and price
\* and a demand >= 0, the picks the greedy selector returns sum to at least
\* the demanded cpu and at least the demanded memory.
C13_GreedyCoversDemand ==
    fnKind = "greedy-done" /\ fnNodes # <<>> =>
        /\ SumFlavorCpu(fnResult) >= SumCpu(fnPod)
        /\ SumFlavorMemory(fnResult) >= SumMem(fnPod)

(***************************************************************************)
(* Properties of the Resource Profiler.                                    *)
(***************************************************************************)
\* C8: in every reachable state every NodeProfile the Profiler wrote has
\* 0 <= cpuAvailable <= cpuCapacity and 0 <= memoryAvailable <= memoryCapacity,
\* also for a node whose Running tasks request more than its allocatable.
C8_ProfileAvailabilityInRange ==
    \A i \in 1..Len(profiles) :
        /\ 0 <= profiles[i].cpuAvailable
        /\ profiles[i].cpuAvailable <= profiles[i].cpuCapacity
        /\ 0 <= profiles[i].memoryAvailable
        /\ profiles[i].memoryAvailable <= profiles[i].memoryCapacity

\* C9: a reconcile that updates an existing NodeProfile leaves its runtime
\* (runtime-age) as it was.
C9_ReconcileKeepsRuntime ==
    [][\A i \in 1..Len(profiles) : \A j \in 1..Len(profiles') :
          profiles[i].instanceName = profiles'[j].instanceName
              => profiles'[j].runtime = profiles[i].runtime]_vars

\* The stored profiles hold one named after the node whose availability is
\* the node's allocatable less the requests of the node's Running pods.
ProfiledFromItself(stored, name) ==
    \E i \in 1..Len(stored) :
        /\ stored[i].instanceName = name
        /\ stored[i].cpuAvailable = nodes[name].allocatableCpu - UsedCpu(name)
        /\ stored[i].memoryAvailable = nodes[name].allocatableMemory - UsedMemory(name)

\* C21: after every reconcile whose calls all succeeded, every node that
\* bears the workload label has a NodeProfile of its own name whose
\* availability was computed from that node's allocatable and that node's
\* Running tasks, with two or more labelled nodes and for any order in which
\* the nodes are listed.
C21_EveryLabelledNodeProfiled ==
    [][ProfilerReconcile =>
          \A name \in DOMAIN nodes :
              HasWorkloadLabel(nodes[name]) => ProfiledFromItself(profiles', name)]_vars

(***************************************************************************)
(* Properties of the Instance Cleaner.                                     *)
(***************************************************************************)
\* C6: whenever a migration has reported failure, at whichever step, the
\* original task still exists and is Running on the source node.
C6_FailedMigrationKeepsOriginal ==
    \A k \in DOMAIN cl.report : \A f \in DOMAIN cl.report[k].failed :
        LET failure == cl.report[k].failed[f]
        IN  /\ failure.pod \in DOMAIN pods
            /\ pods[failure.pod].phase = "Running"
            /\ pods[failure.pod].node = failure.source

\* A migration failed at its last step, the deletion of the original, with
\* the replica restored on the target.
C6_Witness ==
    /\ cl.report # <<>> /\ cl.report[1].failed # <<>>
    /\ cl.report[1].failed[1].step = "delete"
    /\ new_pod_name(cl.report[1].failed[1].pod) \in DOMAIN pods

\* The node of the call was cordoned, deleted or its VM deleted by the call.
NodeTouched(r) ==
    \/ r.node \notin DOMAIN nodes
    \/ r.node \in DOMAIN nodes /\ nodes[r.node] # r.was
    \/ r.node \in cl.deprovisioned \ r.gone

\* Every batch task that was Running on the node when the call began is gone
\* from it and has its replica on another node.
AllMigrated(r) ==
    \A p \in r.started :
        /\ p \notin DOMAIN pods
        /\ new_pod_name(p) \in DOMAIN pods
        /\ pods[new_pod_name(p)].node # r.node

\* C7: in every call of reschedule_node the node is cordoned, deleted or
\* deprovisioned only if every Running batch task that was on it has been
\* migrated in that call, and after a failed migration or a task without
\* candidate the node is as it was.
C7_DeprovisionOnlyAfterAllMigrated ==
    \A k \in DOMAIN cl.report :
        LET r == cl.report[k]
        IN  /\ NodeTouched(r) => AllMigrated(r)
            /\ r.aborted => ~NodeTouched(r)

\* A node that hosted two Running batch tasks was deleted and its VM too.
C7_Witness ==
    /\ cl.report # <<>>
    /\ Cardinality(cl.report[1].started) = MaxPods
    /\ cl.report[1].node \notin DOMAIN nodes
    /\ cl.report[1].node \in cl.deprovisioned

\* In the store, the task is gone from the source and its replica runs on
\* another node.
MigratedIn(store, name, source) ==
    /\ name \notin DOMAIN store
    /\ new_pod_name(name) \in DOMAIN store
    /\ store[new_pod_name(name)].phase = "Running"
    /\ store[new_pod_name(name)].node # source

\* In the store, the task runs on the source.
RemainsIn(store, name, source) ==
    /\ name \in DOMAIN store
    /\ store[name].phase = "Running"
    /\ store[name].node = source

\* The call in progress or last returned broke off its loop.
ReclaimAborted == cl.report # <<>> /\ cl.report[1].aborted

\* C19: when the loop of reschedule_node breaks off at a task (its migration
\* failed, or it has no candidate), the tasks before it run on their targets,
\* that task and the tasks after it run on the source node, and the source
\* node is as it was; and from then until another call begins no task is
\* created, deleted, moved or stopped and no node changes.
C19_AbortKeepsPartialResult ==
    [][/\ cl'.pc = "after" /\ ~cl'.migration_success =>
             /\ \A k \in 1..Len(cl'.batch_pods) :
                   IF k < cl'.i
                   THEN MigratedIn(pods', cl'.batch_pods[k].name, cl'.node)
                   ELSE RemainsIn(pods', cl'.batch_pods[k].name, cl'.node)
             /\ cl'.node \in DOMAIN nodes'
             /\ nodes'[cl'.node] = cl'.report[1].was
       /\ ReclaimAborted /\ cl'.report = cl.report =>
             /\ DOMAIN pods' = DOMAIN pods
             /\ \A name \in DOMAIN pods :
                   /\ pods'[name].node = pods[name].node
                   /\ pods[name].phase = "Running" => pods'[name].phase = "Running"
             /\ nodes' = nodes]_vars

\* A call that found no candidate for its second task has returned: the
\* first task's replica runs on the other batch node, the second task on the
\* source.
C19_Witness ==
    /\ cl.pc = "ready" /\ ReclaimAborted /\ cl.report[1].failed = <<>>
    /\ \E p \in cl.report[1].started, q \in cl.report[1].started :
          /\ MigratedIn(pods, p, cl.report[1].node)
          /\ RemainsIn(pods, q, cl.report[1].node)

\* The tasks of the call that have been migrated onto the node.
MigratedOnto(r, name) ==
    {p \in r.started : /\ MigratedIn(pods, p, r.node)
                       /\ pods[new_pod_name(p)].node = name}

RECURSIVE CpuOf(_, _)
CpuOf(requests, S) ==
    IF S = {} THEN 0
    ELSE LET p == CHOOSE q \in S : TRUE IN requests[p].cpu + CpuOf(requests, S \ {p})

RECURSIVE MemoryOf(_, _)
MemoryOf(requests, S) ==
    IF S = {} THEN 0
    ELSE LET p == CHOOSE q \in S : TRUE IN requests[p].mem + MemoryOf(requests, S \ {p})

\* C22: in every call of reschedule_node and for every candidate node, the
\* CPU and the memory requested by the tasks migrated onto the candidate in
\* that call do not exceed the headroom the candidate had when the call
\* began (its allocatable less the requests of its Running tasks).
C22_MigrationsFitHeadroom ==
    \A k \in DOMAIN cl.report :
        LET r == cl.report[k]
        IN  \A name \in DOMAIN r.running \ {r.node} :
                /\ CpuOf(r.requests, MigratedOnto(r, name))
                      <= nodes[name].allocatableCpu - CpuOf(r.requests, r.running[name])
                /\ MemoryOf(r.requests, MigratedOnto(r, name))
                      <= nodes[name].allocatableMemory - MemoryOf(r.requests, r.running[name])

\* C27: at the moment the Cleaner cordons a node or deletes its node object,
\* no Running task of any workload type is placed on the node.
C27_DeletedNodeHostsNoWork ==
    [][\A name \in DOMAIN nodes :
          \/ name \notin DOMAIN nodes'
          \/ name \in DOMAIN nodes' /\ nodes'[name].unschedulable /\ ~nodes[name].unschedulable
          => RunningOn(name) = {}]_vars

\* C28: in every state in which no migration is in progress (each attempt
\* has returned, with success or with failure at whichever step), no task
\* exists together with its "-migrated" replica.
C28_NoTaskDuplicated ==
    cl.pc # "migrate" =>
        \A name \in DOMAIN pods : new_pod_name(name) \notin DOMAIN pods

\* The batch node is in the cluster and no pod runs on it: its utilization
\* is nought, below any threshold, and it has no batch task to migrate.
IdleBatchNode(name) ==
    /\ name \in DOMAIN nodes
    /\ nodes[name].workload = <<"batch">>
    /\ RunningOn(name) = {}

\* C29: with the Cleaner's loop running and its external calls succeeding, a
\* batch node that stays idle is cordoned, deleted and deprovisioned in the
\* end: an idle batch node does not stay idle and in the cluster for ever.
C29_IdleNodeReclaimed ==
    \A name \in {NodeName(1), NodeName(2)} :
        IdleBatchNode(name) ~> ~IdleBatchNode(name)

(***************************************************************************)
(* Properties of the Cloud Adapter.                                        *)
(***************************************************************************)
AdapterReturned == ca.pc = "ready" /\ ca.last # <<>>

\* C16: deprovision_vm called for an instance that does not exist returns
\* success, so that a second call for the same instance succeeds as the
\* first did.
C16_DeprovisionMissingSucceeds ==
    \/ ~AdapterReturned
    \/ ca.last[1].op # "deprovision_vm"
    \/ ~ca.last[1].initialised
    \/ ca.last[1].existed
    \/ NextAnswer(ca.last[1].script) # "ok"
    \/ ca.last[1].result = "True"

\* The call could succeed at its second request: the object is set up, the
\* first answer is a transient "unavailable", the second "ok", and the
\* orchestrator or cloud has no ground to refuse.
RetryWouldSucceed(call) ==
    /\ call.initialised
    /\ Len(call.script) >= 2
    /\ call.script[1] = "unavailable" /\ call.script[2] = "ok"
    /\ call.op = "provision_vm" => ~call.existed
    /\ call.op = "deprovision_vm" => call.existed

\* C20: an operation that meets a transient Unavailable error sends its
\* request again, up to 5 times in all: when the first request fails with
\* Unavailable and the second would succeed the operation is carried out
\* with two requests, and after a non-transient error it reports failure
\* after one.
C20_TransientErrorsRetried ==
    AdapterReturned =>
        LET call == ca.last[1]
        IN  /\ call.attempts <= 5
            /\ RetryWouldSucceed(call) /\ call.op # "deploy_pod" =>
                   call.attempts = 2 /\ call.result = ReturnedOnSuccess(call)
            /\ call.initialised /\ NextAnswer(call.script) = "error" =>
                   call.attempts = 1 /\ ~call.done

\* C24: provision_vm and deprovision_vm always return: a wait for an
\* operation, also for one that never reports DONE, ends (with a timeout
\* error), so that the caller goes on.
C24_WaitAlwaysEnds == (ca.pc = "waiting") ~> (ca.pc = "ready")

====
